---- MODULE Spec2Model ----
(***************************************************************************)
(* Veritas: receipt witnessing and settlement.                             *)
(*                                                                         *)
(* The model covers the two server entry points (the HTTP server and the   *)
(* MCP server, which keep the same pair of in-memory maps), the settler    *)
(* module settleToArweave, and the AO ledger process (the Lua handlers).   *)
(*                                                                         *)
(* Conventions                                                             *)
(*  - a JavaScript string is a sequence of character codes;                *)
(*  - a JavaScript Map is a sequence of entries in insertion order, with   *)
(*    unique keys (pendingReceipts); settledReceipts is never iterated, so *)
(*    it is a function from its keys;                                      *)
(*  - the AO process state is a deterministic function of the ordered log  *)
(*    of messages scheduled to it, so a message is evaluated by its        *)
(*    handler in the step that schedules it;                               *)
(*  - SHA-256 is an ideal hash: the digest is four 16-character blocks,    *)
(*    each of which determines the hashed text.                            *)
(***************************************************************************)
EXTENDS Integers, Sequences, FiniteSets, TLC

\* ------------------------------------------------------------------ bounds

\* Date.now() and msg.Timestamp range over 0..MaxTime.
MaxTime == 1

\* At most MaxRuns settlement runs are in flight at once.
MaxRuns == 2

\* ----------------------------------------------------------- JS / Lua values

\* A string is a sequence of character codes (all >= 0); undefined and null
\* are the two sequences below, which no string equals.
Undefined == << -1 >>
Null == << -2 >>

\* Truthiness of a string-or-undefined value (`!request.context`): undefined,
\* null and the empty string are falsy.
Truthy(x) ==
    x # Undefined /\ x # Null /\ x # << >>

\* `x || null`
OrNull(x) ==
    IF Truthy(x) THEN x ELSE Null

\* Lua's nil, for an address and for a receipt_id.
Nil == "nil"
NilId == << "nil" >>

\* A transaction / message identifier is a record with a kind; null is NullTx.
NullTx == [ kind |-> "null" ]

MsgId(n) ==
    [ kind |-> "msg", n |-> n ]

\* ------------------------------------------------------------------ inputs

\* The decision records the callers submit.
Requests ==
    { [context |-> <<99>>, logic |-> <<108>>, action |-> a, agent_id |-> Undefined]
        : a \in { <<97>> } }

\* The identities that can author a message to the ledger process.
OwnerAddr == "owner"
OtherAddr == "other"

\* The wallet the settler finds on disk: none, the wallet that spawned the
\* process, or another wallet.
NoWallet == "none"
Wallets == { NoWallet, OwnerAddr, OtherAddr }

VARIABLES
    server,           \* "http" or "mcp": the entry point this process runs
    targetProcess,    \* DEFAULT_PROCESS_ID: "proc", or "none" for null
    wallet,           \* what loadWallet() returns: an address or "none"
    now,              \* the clock read by Date.now() and stamped on AO messages
    pendingReceipts,  \* Map<string, PendingReceipt>, in insertion order
    settledReceipts,  \* Map<string, WitnessReceipt>
    runs,             \* the settlement runs in flight (suspended at an await)
    State,            \* the AO process state
    lastMsg,          \* the message the ledger process evaluated last
    lastReply,        \* what its handler sent with ao.send, or NoReply
    outcome,          \* the status and error shared by the results the last
                      \* finished settleToArweave call returned
    returned,         \* the receipts witnessDecision has returned (history)
    response          \* the last response the transport sent to a caller of
                      \* witness or verify, or NoResponse

vars ==
    << server, targetProcess, wallet, now, pendingReceipts, settledReceipts,
       runs, State, lastMsg, lastReply, outcome, returned, response >>

serverVars ==
    << pendingReceipts, settledReceipts, runs, outcome, returned >>

ledgerVars ==
    << State, lastMsg, lastReply >>

configVars ==
    << server, targetProcess, wallet >>

\* Nothing has been sent to a caller yet.
NoResponse == [ none |-> TRUE ]

\* ---------------------------------------------------------------- hashing

\* A faulty payload that leaves the timestamp out.
HashPayloadWithoutTime(request, timestamp_ms) ==
    << request.context, request.logic, request.action,
       OrNull(request.agent_id), 0 >>

\* JSON.stringify of the object hashWitnessRequest builds.
HashPayload(request, timestamp_ms) ==
    << request.context, request.logic, request.action,
       OrNull(request.agent_id), timestamp_ms >>

\* createHash("sha256").update(payload).digest("hex"): 64 hex characters, as
\* four blocks of 16.
Sha256Hex(payload) ==
    [ i \in 1..4 |-> << i, payload >> ]

hashWitnessRequest(request, timestamp_ms) ==
    Sha256Hex(HashPayload(request, timestamp_ms))

\* A faulty generateReceiptId that takes characters 17 to 32 of the hash.
generateReceiptIdSecondBlock(hash) ==
    << "vts_" >> \o SubSeq(hash, 2, 2)

\* `vts_${hash.substring(0, 16)}`
generateReceiptId(hash) ==
    << "vts_" >> \o SubSeq(hash, 1, 1)

\* The process keypair, generated once at start.
privateKey == "sk"
publicKey == "pk"

KeyPairMatches(sk, pk) ==
    sk = "sk" /\ pk = "pk"

\* ECDSA signatures are randomised: the same hash signs to different
\* signatures, told apart here by the nonce.
Nonces == { 1 }

signHash(hash, nonce) ==
    [ signer |-> privateKey, over |-> hash, nonce |-> nonce ]

verifySignature(hash, signature) ==
    /\ KeyPairMatches(signature.signer, publicKey)
    /\ signature.over = hash

\* ------------------------------------------------------------ Map helpers

MapKeys(m) ==
    { m[i].receipt_id : i \in 1..Len(m) }

MapHas(m, k) ==
    k \in MapKeys(m)

MapIndex(m, k) ==
    CHOOSE i \in 1..Len(m) : m[i].receipt_id = k

MapGet(m, k) ==
    m[MapIndex(m, k)]

\* A faulty set that adds an entry whether or not the key is present.
MapSetAppending(m, k, v) ==
    Append(m, v)

\* Map.prototype.set: an existing key keeps its place, a new key is appended.
MapSet(m, k, v) ==
    IF MapHas(m, k)
    THEN [ m EXCEPT ![MapIndex(m, k)] = v ]
    ELSE Append(m, v)

\* Map.prototype.delete
MapDelete(m, k) ==
    IF MapHas(m, k)
    THEN SubSeq(m, 1, MapIndex(m, k) - 1) \o SubSeq(m, MapIndex(m, k) + 1, Len(m))
    ELSE m

SeqRemove(s, i) ==
    SubSeq(s, 1, i - 1) \o SubSeq(s, i + 1, Len(s))

Range(s) ==
    { s[i] : i \in 1..Len(s) }

\* -------------------------------------------------------------- witnessing

\* The WitnessReceipt witnessDecision builds and returns.
NewReceipt(request, timestamp_ms, nonce) ==
    [ receipt_id   |-> generateReceiptId(hashWitnessRequest(request, timestamp_ms)),
      signature    |-> signHash(hashWitnessRequest(request, timestamp_ms), nonce),
      timestamp_ms |-> timestamp_ms,
      hash         |-> hashWitnessRequest(request, timestamp_ms),
      arweave_tx   |-> NullTx,
      status       |-> "pending" ]

\* { ...receipt, full_payload: request }
WithPayload(receipt, request) ==
    [ receipt_id   |-> receipt.receipt_id,
      signature    |-> receipt.signature,
      timestamp_ms |-> receipt.timestamp_ms,
      hash         |-> receipt.hash,
      arweave_tx   |-> receipt.arweave_tx,
      status       |-> receipt.status,
      full_payload |-> request ]

\* The pending map after witnessDecision(request) at the given instant.
witnessDecision(pending, request, timestamp_ms, nonce) ==
    MapSet(pending,
           NewReceipt(request, timestamp_ms, nonce).receipt_id,
           WithPayload(NewReceipt(request, timestamp_ms, nonce), request))

\* A faulty witness that waits until no settlement run is in flight.
WitnessAfterSettlement(request, nonce) ==
    /\ Len(runs) = 0
    /\ pendingReceipts' = witnessDecision(pendingReceipts, request, now, nonce)
    /\ returned' = returned \cup { NewReceipt(request, now, nonce) }
    /\ UNCHANGED << settledReceipts, runs, outcome, now, configVars, response, ledgerVars >>

\* A witness request reaches the core (the transport has validated it).
Witness(request, nonce) ==
    /\ pendingReceipts' = witnessDecision(pendingReceipts, request, now, nonce)
    /\ returned' = returned \cup { NewReceipt(request, now, nonce) }
    /\ UNCHANGED << settledReceipts, runs, outcome, now, configVars, response, ledgerVars >>

\* ------------------------------------------------------------------ ledger

\* A function (a Lua table, a Map) with one key set.
Put(f, k, v) ==
    [ x \in (DOMAIN f) \cup { k } |-> IF x = k THEN v ELSE f[x] ]

EmptyTable ==
    [ x \in {} |-> 0 ]

\* The text JSON.stringify / json.encode produces for a value, and a text
\* that is not JSON.  json.decode fails on the latter and on the empty string.
JsonText(v) ==
    [ kind |-> "json", value |-> v ]

RawText(chars) ==
    [ kind |-> "raw", chars |-> chars ]

\* parse_data(msg): the decoded Data, or nil ([ kind |-> "nil" ]).
LuaNil == [ kind |-> "nil" ]

parse_data(msg) ==
    IF msg.Data.kind = "json" THEN msg.Data.value ELSE LuaNil

\* A faulty is_owner that accepts any sender that names itself.
is_ownerAnySender(S, msg) ==
    msg.From # Nil

\* is_owner(msg)
is_owner(S, msg) ==
    msg.From # Nil /\ msg.From = S.Owner

NoReply == [ Action |-> "none" ]

\* send_reply(msg, action, data): nothing is sent when msg.From is nil.
send_reply(msg, action, data) ==
    IF msg.From = Nil
    THEN NoReply
    ELSE [ Target |-> msg.From, Action |-> action, Data |-> JsonText(data) ]

\* The record the StoreReceipts handler keeps for one entry of the batch.
StoredRecord(receipt, msg) ==
    [ receipt_id    |-> receipt.receipt_id,
      hash          |-> receipt.hash,
      signature     |-> receipt.signature,
      timestamp_ms  |-> receipt.timestamp_ms,
      context_hash  |-> receipt.context_hash,
      logic_summary |-> receipt.logic_summary,
      action        |-> receipt.action,
      agent_id      |-> receipt.agent_id,
      stored_at     |-> msg.Timestamp,
      message_id    |-> msg.Id ]

\* A faulty loop body that stores an entry whether or not its receipt_id is
\* already stored.
StoreOneOverwriting(acc, receipt, msg) ==
    IF receipt.receipt_id # NilId
    THEN [ S |-> [ acc.S EXCEPT
                     !.Receipts = Put(acc.S.Receipts, receipt.receipt_id,
                                      StoredRecord(receipt, msg)),
                     !.ReceiptCount = acc.S.ReceiptCount + 1 ],
           stored_count |-> acc.stored_count + 1 ]
    ELSE acc

\* A faulty loop body that counts an entry it skips.
StoreOneCountingSkipped(acc, receipt, msg) ==
    IF receipt.receipt_id # NilId /\ receipt.receipt_id \notin DOMAIN acc.S.Receipts
    THEN [ S |-> [ acc.S EXCEPT
                     !.Receipts = Put(acc.S.Receipts, receipt.receipt_id,
                                      StoredRecord(receipt, msg)),
                     !.ReceiptCount = acc.S.ReceiptCount + 1 ],
           stored_count |-> acc.stored_count + 1 ]
    ELSE [ acc EXCEPT !.S.ReceiptCount = acc.S.ReceiptCount + 1 ]

\* One iteration of the handler's loop over acc = [ S, stored_count ].
StoreOne(acc, receipt, msg) ==
    IF receipt.receipt_id # NilId /\ receipt.receipt_id \notin DOMAIN acc.S.Receipts
    THEN [ S |-> [ acc.S EXCEPT
                     !.Receipts = Put(acc.S.Receipts, receipt.receipt_id,
                                      StoredRecord(receipt, msg)),
                     !.ReceiptCount = acc.S.ReceiptCount + 1 ],
           stored_count |-> acc.stored_count + 1 ]
    ELSE acc

\* for _, receipt in ipairs(data.receipts): the state and the count after
\* entries i..#receipts.
RECURSIVE StoreLoop(_, _, _, _)
StoreLoop(acc, receipts, i, msg) ==
    IF i > Len(receipts)
    THEN acc
    ELSE StoreLoop(StoreOne(acc, receipts[i], msg), receipts, i + 1, msg)

\* json.decode of a JSON number: a Lua number, not a table.
JsonNumber(n) ==
    [ kind |-> "number", n |-> n ]

\* data.receipts raises "attempt to index a number value": the handler is
\* abandoned where it stands, before any send_reply.
IndexRaises(data) ==
    "kind" \in DOMAIN data /\ data.kind = "number"

HasReceipts(data) ==
    data # LuaNil /\ "receipts" \in DOMAIN data

\* A faulty StoreReceipts handler that does not look at State.Frozen.
StoreReceiptsIgnoringFrozen(S, msg) ==
    IF ~is_owner(S, msg)
    THEN [ state |-> S,
           reply |-> send_reply(msg, "Error", [ error |-> "Unauthorized: owner only" ]) ]
    ELSE IF ~HasReceipts(parse_data(msg))
    THEN [ state |-> S,
           reply |-> send_reply(msg, "Error",
                        [ error |-> "Invalid payload: missing receipts array" ]) ]
    ELSE LET T == StoreLoop([ S |-> S, stored_count |-> 0 ],
                            parse_data(msg).receipts, 1, msg)
         IN  [ state |-> T.S,
               reply |-> send_reply(msg, "ReceiptsStored",
                            [ stored_count |-> T.stored_count,
                              total_count  |-> T.S.ReceiptCount ]) ]

\* The StoreReceipts handler: the new state and the reply.
StoreReceipts(S, msg) ==
    IF S.Frozen
    THEN [ state |-> S,
           reply |-> send_reply(msg, "Error", [ error |-> "Process is frozen" ]) ]
    ELSE IF ~is_owner(S, msg)
    THEN [ state |-> S,
           reply |-> send_reply(msg, "Error", [ error |-> "Unauthorized: owner only" ]) ]
    ELSE IF IndexRaises(parse_data(msg))
    THEN [ state |-> S, reply |-> NoReply ]
    ELSE IF ~HasReceipts(parse_data(msg))
    THEN [ state |-> S,
           reply |-> send_reply(msg, "Error",
                        [ error |-> "Invalid payload: missing receipts array" ]) ]
    ELSE LET T == StoreLoop([ S |-> S, stored_count |-> 0 ],
                            parse_data(msg).receipts, 1, msg)
         IN  [ state |-> T.S,
               reply |-> send_reply(msg, "ReceiptsStored",
                            [ stored_count |-> T.stored_count,
                              total_count  |-> T.S.ReceiptCount ]) ]

\* The Freeze handler.
Freeze(S, msg) ==
    IF ~is_owner(S, msg)
    THEN [ state |-> S,
           reply |-> send_reply(msg, "Error", [ error |-> "Unauthorized: owner only" ]) ]
    ELSE [ state |-> [ S EXCEPT !.Frozen = TRUE ],
           reply |-> send_reply(msg, "Frozen", [ frozen |-> TRUE ]) ]

\* The Unfreeze handler.
Unfreeze(S, msg) ==
    IF ~is_owner(S, msg)
    THEN [ state |-> S,
           reply |-> send_reply(msg, "Error", [ error |-> "Unauthorized: owner only" ]) ]
    ELSE [ state |-> [ S EXCEPT !.Frozen = FALSE ],
           reply |-> send_reply(msg, "Unfrozen", [ frozen |-> FALSE ]) ]

\* Handlers: the handler whose matcher accepts the message's Action tag.
Handle(S, msg) ==
    CASE msg.Action = "StoreReceipts" -> StoreReceipts(S, msg)
      [] msg.Action = "Freeze"        -> Freeze(S, msg)
      [] msg.Action = "Unfreeze"      -> Unfreeze(S, msg)
      [] OTHER                        -> [ state |-> S, reply |-> NoReply ]

\* State = State or { ... }
InitialState ==
    [ Receipts     |-> EmptyTable,
      ReceiptCount |-> 0,
      Owner        |-> OwnerAddr,
      Frozen       |-> FALSE,
      Version      |-> "0.1.0" ]

\* The message identifiers some part of the state still refers to.
UsedMsgNumbers ==
    { State.Receipts[k].message_id.n : k \in DOMAIN State.Receipts }
        \cup { settledReceipts[k].arweave_tx.n :
                 k \in { j \in DOMAIN settledReceipts :
                           settledReceipts[j].arweave_tx.kind = "msg" } }
        \cup { runs[i].messageId.n :
                 i \in { j \in 1..Len(runs) : runs[j].messageId.kind = "msg" } }

\* A message identifier nothing refers to (identifiers are unique; the least
\* unused number stands for a new one).
FreshMsgId ==
    MsgId(CHOOSE n \in 1..(Cardinality(UsedMsgNumbers) + 1) :
            /\ n \notin UsedMsgNumbers
            /\ \A m \in 1..(n - 1) : m \in UsedMsgNumbers)

\* What is kept of an evaluated message: its sender, its action, whether
\* its Data decodes, and the receipt_ids of the batch it carries.
Summary(msg) ==
    [ From   |-> msg.From,
      Action |-> msg.Action,
      Data   |-> msg.Data.kind,
      Ids    |-> IF HasReceipts(parse_data(msg))
                 THEN [ i \in 1..Len(parse_data(msg).receipts) |->
                          parse_data(msg).receipts[i].receipt_id ]
                 ELSE << >> ]

NoMsg ==
    [ From |-> Nil, Action |-> "none", Data |-> "raw", Ids |-> << >> ]

\* A message is scheduled to the process and evaluated by its handler.
Deliver(msg) ==
    /\ State' = Handle(State, msg).state
    /\ lastReply' = Handle(State, msg).reply
    /\ lastMsg' = Summary(msg)

Message(from, action, data) ==
    [ From |-> from, Action |-> action, Data |-> data,
      Id |-> FreshMsgId, Timestamp |-> now ]

\* ---------------------------------------------------- ledger: public queries

\* The tags of a query message.  An absent tag is nil (NilId for Receipt-Id);
\* a Limit tag is absent, a text tonumber() refuses, or a number, kept in
\* halves so that 2.5 can be told from 2 and 3.
NoLimit == [ kind |-> "absent" ]
TextLimit == [ kind |-> "text" ]

NumberLimit(halves) ==
    [ kind |-> "number", halves |-> halves ]

Query(from, action, receiptIdTag, limitTag, data) ==
    [ From |-> from, Action |-> action, Data |-> data,
      Tags |-> [ ReceiptId |-> receiptIdTag, Limit |-> limitTag ],
      Id |-> FreshMsgId, Timestamp |-> now ]

\* msg.Data used as a receipt_id: the text itself.  A JSON text is no
\* receipt_id; it is kept as a three-part text.
DataText(data) ==
    IF data.kind = "raw" THEN data.chars ELSE << "{", "json", "}" >>

\* The receipt_id GetReceipt and VerifyReceipt look up: the Receipt-Id tag,
\* else data.receipt_id, else msg.Data.
RequestedId(msg) ==
    IF msg.Tags.ReceiptId # NilId
    THEN msg.Tags.ReceiptId
    ELSE IF parse_data(msg) # LuaNil
              /\ "receipt_id" \in DOMAIN parse_data(msg)
              /\ parse_data(msg).receipt_id # NilId
    THEN parse_data(msg).receipt_id
    ELSE DataText(msg.Data)

\* The GetReceipt handler.
GetReceipt(S, msg) ==
    IF RequestedId(msg) = << >>
    THEN [ state |-> S,
           reply |-> send_reply(msg, "Error", [ error |-> "Missing Receipt-Id" ]) ]
    ELSE IF RequestedId(msg) \in DOMAIN S.Receipts
    THEN [ state |-> S,
           reply |-> send_reply(msg, "Receipt", S.Receipts[RequestedId(msg)]) ]
    ELSE [ state |-> S,
           reply |-> send_reply(msg, "NotFound",
                        [ error      |-> "Receipt not found",
                          receipt_id |-> RequestedId(msg) ]) ]

\* The value of `limit` when none is given.
DefaultLimit == 100

\* tonumber(msg.Tags["Limit"]) or 100, in halves.
LimitHalves(msg) ==
    IF msg.Tags.Limit.kind = "number"
    THEN msg.Tags.Limit.halves
    ELSE 2 * DefaultLimit

\* One element of the list ListReceipts builds.
ListedSummary(S, receipt_id) ==
    [ receipt_id   |-> receipt_id,
      timestamp_ms |-> S.Receipts[receipt_id].timestamp_ms,
      stored_at    |-> S.Receipts[receipt_id].stored_at ]

\* A faulty loop that never looks at the limit.
ListLoopUnbounded(S, order, limitHalves) ==
    [ i \in 1..Len(order) |-> ListedSummary(S, order[i]) ]

\* for receipt_id, receipt in pairs(State.Receipts): `order` is the order
\* pairs() walks the table in.  The loop ends at the first count that has
\* reached the limit, or with the table; the list holds that many entries.
ListLoop(S, order, limitHalves) ==
    LET count == CHOOSE n \in 0..Len(order) :
                     /\ n = Len(order) \/ 2 * n >= limitHalves
                     /\ n = 0 \/ 2 * (n - 1) < limitHalves
    IN  [ i \in 1..count |-> ListedSummary(S, order[i]) ]

\* The ListReceipts handler.
ListReceipts(S, msg, order) ==
    [ state |-> S,
      reply |-> send_reply(msg, "ReceiptList",
                   [ receipts    |-> ListLoop(S, order, LimitHalves(msg)),
                     total_count |-> S.ReceiptCount ]) ]

\* The VerifyReceipt handler (the process_id is ao.id).
VerifyReceipt(S, msg) ==
    [ state |-> S,
      reply |-> send_reply(msg, "VerificationResult",
                   [ receipt_id |-> RequestedId(msg),
                     exists     |-> RequestedId(msg) \in DOMAIN S.Receipts,
                     stored_at  |-> IF RequestedId(msg) \in DOMAIN S.Receipts
                                    THEN S.Receipts[RequestedId(msg)].stored_at
                                    ELSE LuaNil,
                     message_id |-> IF RequestedId(msg) \in DOMAIN S.Receipts
                                    THEN S.Receipts[RequestedId(msg)].message_id
                                    ELSE LuaNil,
                     process_id |-> "proc" ]) ]

\* A faulty GetStats that counts the queries in ReceiptCount.
GetStatsCounting(S, msg) ==
    [ state |-> [ S EXCEPT !.ReceiptCount = S.ReceiptCount + 1 ],
      reply |-> send_reply(msg, "Stats",
                   [ receipt_count |-> S.ReceiptCount,
                     owner         |-> S.Owner,
                     frozen        |-> S.Frozen,
                     version       |-> S.Version,
                     process_id    |-> "proc" ]) ]

\* The GetStats handler.
GetStats(S, msg) ==
    [ state |-> S,
      reply |-> send_reply(msg, "Stats",
                   [ receipt_count |-> S.ReceiptCount,
                     owner         |-> S.Owner,
                     frozen        |-> S.Frozen,
                     version       |-> S.Version,
                     process_id    |-> "proc" ]) ]

\* The query handler whose matcher accepts the message's Action tag.
HandleQuery(S, msg, order) ==
    CASE msg.Action = "GetReceipt"    -> GetReceipt(S, msg)
      [] msg.Action = "ListReceipts"  -> ListReceipts(S, msg, order)
      [] msg.Action = "VerifyReceipt" -> VerifyReceipt(S, msg)
      [] msg.Action = "GetStats"      -> GetStats(S, msg)
      [] OTHER                        -> [ state |-> S, reply |-> NoReply ]

\* A query is scheduled to the process and evaluated by its handler;
\* pairs() walks State.Receipts in the given order.
DeliverQuery(msg, order) ==
    /\ State' = HandleQuery(State, msg, order).state
    /\ lastReply' = HandleQuery(State, msg, order).reply
    /\ lastMsg' = Summary(msg)

\* ------------------------------------------------------------ verification

\* The `receipt: null` of a verification result.
NullReceipt == [ null |-> TRUE ]

\* A faulty view that hands out the pending entry as it is stored.
PendingViewWithPayload(srv, pending) ==
    pending

\* The view verifyReceipt returns of a pending entry: the HTTP server copies
\* the entry with full_payload set to undefined, the MCP server builds the
\* six public fields.
PendingView(srv, pending) ==
    IF srv = "http"
    THEN [ pending EXCEPT !.full_payload = Undefined ]
    ELSE [ receipt_id   |-> pending.receipt_id,
           signature    |-> pending.signature,
           timestamp_ms |-> pending.timestamp_ms,
           hash         |-> pending.hash,
           arweave_tx   |-> NullTx,
           status       |-> "pending" ]

SettledMessage(srv) ==
    IF srv = "http"
    THEN "Receipt verified and settled"
    ELSE "Receipt verified and settled on Arweave"

\* A faulty verifyReceipt that looks in the settled map only.
verifyReceiptSettledOnly(srv, pending, settled, receipt_id) ==
    IF receipt_id \in DOMAIN settled
    THEN [ valid   |-> verifySignature(settled[receipt_id].hash,
                                       settled[receipt_id].signature),
           receipt |-> settled[receipt_id],
           message |-> IF verifySignature(settled[receipt_id].hash,
                                          settled[receipt_id].signature)
                       THEN SettledMessage(srv)
                       ELSE "Invalid signature" ]
    ELSE [ valid   |-> FALSE,
           receipt |-> NullReceipt,
           message |-> "Receipt not found" ]

\* A faulty verifyReceipt that reports a stored receipt with a bad signature
\* as unknown.
verifyReceiptHidingInvalid(srv, pending, settled, receipt_id) ==
    IF receipt_id \in DOMAIN settled
          /\ verifySignature(settled[receipt_id].hash, settled[receipt_id].signature)
    THEN [ valid   |-> TRUE,
           receipt |-> settled[receipt_id],
           message |-> SettledMessage(srv) ]
    ELSE IF receipt_id \notin DOMAIN settled /\ MapHas(pending, receipt_id)
               /\ verifySignature(MapGet(pending, receipt_id).hash,
                                  MapGet(pending, receipt_id).signature)
    THEN [ valid   |-> TRUE,
           receipt |-> PendingView(srv, MapGet(pending, receipt_id)),
           message |-> "Receipt verified, settlement pending" ]
    ELSE [ valid   |-> FALSE,
           receipt |-> NullReceipt,
           message |-> "Receipt not found" ]

\* verifyReceipt(receipt_id) against the two maps.
verifyReceipt(srv, pending, settled, receipt_id) ==
    IF receipt_id \in DOMAIN settled
    THEN [ valid   |-> verifySignature(settled[receipt_id].hash,
                                       settled[receipt_id].signature),
           receipt |-> settled[receipt_id],
           message |-> IF verifySignature(settled[receipt_id].hash,
                                          settled[receipt_id].signature)
                       THEN SettledMessage(srv)
                       ELSE "Invalid signature" ]
    ELSE IF MapHas(pending, receipt_id)
    THEN [ valid   |-> verifySignature(MapGet(pending, receipt_id).hash,
                                       MapGet(pending, receipt_id).signature),
           receipt |-> PendingView(srv, MapGet(pending, receipt_id)),
           message |-> IF verifySignature(MapGet(pending, receipt_id).hash,
                                          MapGet(pending, receipt_id).signature)
                       THEN "Receipt verified, settlement pending"
                       ELSE "Invalid signature" ]
    ELSE [ valid   |-> FALSE,
           receipt |-> NullReceipt,
           message |-> "Receipt not found" ]

\* ----------------------------------------------------------------- settler

\* 32-bit integers are pairs of 16-bit halves [ hi, lo ] (two's complement).
Int32Zero == [ hi |-> 0, lo |-> 0 ]

\* hash << 5
Shl5(h) ==
    [ hi |-> (h.hi * 32 + (h.lo * 32) \div 65536) % 65536,
      lo |-> (h.lo * 32) % 65536 ]

\* ((a - b) + char), wrapped to 32 bits by `hash & hash`.
SubAdd(a, b, char) ==
    LET lo == a.lo - b.lo + char
        hi == a.hi - b.hi + (IF lo < 0 THEN -1 ELSE lo \div 65536)
    IN  [ hi |-> hi % 65536, lo |-> lo % 65536 ]

\* The loop of hashString: the hash after characters i..str.length.
RECURSIVE HashLoop(_, _, _)
HashLoop(hash, str, i) ==
    IF i > Len(str)
    THEN hash
    ELSE HashLoop(SubAdd(Shl5(hash), hash, str[i]), str, i + 1)

\* Math.abs of a 32-bit integer, as an unsigned pair.
Abs32(h) ==
    IF h.hi < 32768
    THEN h
    ELSE IF h.lo = 0
         THEN [ hi |-> (65536 - h.hi) % 65536, lo |-> 0 ]
         ELSE [ hi |-> 65535 - h.hi, lo |-> 65536 - h.lo ]

HexChar(d) ==
    IF d < 10 THEN 48 + d ELSE 87 + d

\* The eight hexadecimal digits of an unsigned pair, most significant first.
HexDigits8(h) ==
    << h.hi \div 4096, (h.hi \div 256) % 16, (h.hi \div 16) % 16, h.hi % 16,
       h.lo \div 4096, (h.lo \div 256) % 16, (h.lo \div 16) % 16, h.lo % 16 >>

RECURSIVE StripZeros(_)
StripZeros(ds) ==
    IF Len(ds) > 1 /\ ds[1] = 0 THEN StripZeros(Tail(ds)) ELSE ds

\* Number.prototype.toString(16)
ToHex(h) ==
    [ i \in 1..Len(StripZeros(HexDigits8(h))) |->
        HexChar(StripZeros(HexDigits8(h))[i]) ]

\* hashString(str)
hashString(str) ==
    ToHex(Abs32(HashLoop(Int32Zero, str, 1)))

\* The length logic is cut to before it is sent to the ledger.
LogicSummaryLen == 200

\* String.prototype.substring(0, n)
Substring0(str, n) ==
    SubSeq(str, 1, IF Len(str) < n THEN Len(str) ELSE n)

\* A faulty summary that sends context and logic as they were submitted.
ReceiptSummaryVerbatim(r) ==
    [ receipt_id    |-> r.receipt_id,
      hash          |-> r.hash,
      signature     |-> r.signature,
      timestamp_ms  |-> r.timestamp_ms,
      context_hash  |-> r.full_payload.context,
      logic_summary |-> r.full_payload.logic,
      action        |-> r.full_payload.action,
      agent_id      |-> OrNull(r.full_payload.agent_id) ]

\* One element of batchPayload.receipts.
ReceiptSummary(r) ==
    [ receipt_id    |-> r.receipt_id,
      hash          |-> r.hash,
      signature     |-> r.signature,
      timestamp_ms  |-> r.timestamp_ms,
      context_hash  |-> hashString(r.full_payload.context),
      logic_summary |-> Substring0(r.full_payload.logic, LogicSummaryLen),
      action        |-> r.full_payload.action,
      agent_id      |-> OrNull(r.full_payload.agent_id) ]

\* batchPayload
BatchPayload(receipts, settled_at) ==
    [ type       |-> "VeritasReceiptBatch",
      count      |-> Len(receipts),
      receipts   |-> [ i \in 1..Len(receipts) |-> ReceiptSummary(receipts[i]) ],
      settled_at |-> settled_at ]

\* A faulty no-process branch that reports every receipt failed.
SimulatedResultsFailing(receipts, t) ==
    [ i \in 1..Len(receipts) |->
        [ receipt_id    |-> receipts[i].receipt_id,
          arweave_tx    |-> NullTx,
          ao_message_id |-> NullTx,
          status        |-> "failed",
          error         |-> "No process configured" ] ]

\* The results settleToArweave returns when no process is configured.
SimulatedResults(receipts, t) ==
    [ i \in 1..Len(receipts) |->
        [ receipt_id    |-> receipts[i].receipt_id,
          arweave_tx    |-> [ kind |-> "sim", at |-> t, id |-> receipts[i].receipt_id ],
          ao_message_id |-> [ kind |-> "sim_msg", at |-> t ],
          status        |-> "settled",
          error         |-> "" ] ]

\* A faulty failure branch that reports the receipts settled with no
\* transaction.
FailedResultsAsSettled(receipts, error) ==
    [ i \in 1..Len(receipts) |->
        [ receipt_id    |-> receipts[i].receipt_id,
          arweave_tx    |-> NullTx,
          ao_message_id |-> NullTx,
          status        |-> "settled",
          error         |-> error ] ]

\* The results of a failed settlement (no wallet, or the catch branch).
FailedResults(receipts, error) ==
    [ i \in 1..Len(receipts) |->
        [ receipt_id    |-> receipts[i].receipt_id,
          arweave_tx    |-> NullTx,
          ao_message_id |-> NullTx,
          status        |-> "failed",
          error         |-> error ] ]

\* Faulty results that report the batch settled and leave out the message id.
SettledResultsWithoutTx(receipts, messageId) ==
    [ i \in 1..Len(receipts) |->
        [ receipt_id    |-> receipts[i].receipt_id,
          arweave_tx    |-> NullTx,
          ao_message_id |-> messageId,
          status        |-> "settled",
          error         |-> "" ] ]

\* The results pushed after message() and result() have returned.
SettledResults(receipts, messageId) ==
    [ i \in 1..Len(receipts) |->
        [ receipt_id    |-> receipts[i].receipt_id,
          arweave_tx    |-> messageId,
          ao_message_id |-> messageId,
          status        |-> "settled",
          error         |-> "" ] ]

\* ------------------------------------------------- HTTP server: settlement

\* A faulty promotion that signs the settled receipt anew, over a digest of
\* its hash instead of the hash.
SettledReceiptResigned(pending, arweave_tx) ==
    [ receipt_id   |-> pending.receipt_id,
      signature    |-> signHash(Sha256Hex(<< pending.hash >>), 1),
      timestamp_ms |-> pending.timestamp_ms,
      hash         |-> pending.hash,
      arweave_tx   |-> arweave_tx,
      status       |-> "settled" ]

\* A faulty promotion that records the transaction and leaves the status as
\* it was.
SettledReceiptKeepingStatus(pending, arweave_tx) ==
    [ receipt_id   |-> pending.receipt_id,
      signature    |-> pending.signature,
      timestamp_ms |-> pending.timestamp_ms,
      hash         |-> pending.hash,
      arweave_tx   |-> arweave_tx,
      status       |-> pending.status ]

\* The settled WitnessReceipt built from a pending one.
SettledReceipt(pending, arweave_tx) ==
    [ receipt_id   |-> pending.receipt_id,
      signature    |-> pending.signature,
      timestamp_ms |-> pending.timestamp_ms,
      hash         |-> pending.hash,
      arweave_tx   |-> arweave_tx,
      status       |-> "settled" ]

\* A faulty loop body that gives up on a receipt whose result is not settled.
ApplyResultGivingUp(stores, result) ==
    IF ~MapHas(stores.pending, result.receipt_id)
    THEN stores
    ELSE IF result.status = "settled"
    THEN [ pending |-> MapDelete(stores.pending, result.receipt_id),
           settled |-> Put(stores.settled, result.receipt_id,
                           SettledReceipt(MapGet(stores.pending, result.receipt_id),
                                          result.arweave_tx)) ]
    ELSE [ pending |-> MapDelete(stores.pending, result.receipt_id),
           settled |-> stores.settled ]

\* A faulty loop body that marks a receipt failed when its result is not
\* settled.
ApplyResultMarkingFailed(stores, result) ==
    IF ~MapHas(stores.pending, result.receipt_id)
    THEN stores
    ELSE IF result.status = "settled"
    THEN [ pending |-> MapDelete(stores.pending, result.receipt_id),
           settled |-> Put(stores.settled, result.receipt_id,
                           SettledReceipt(MapGet(stores.pending, result.receipt_id),
                                          result.arweave_tx)) ]
    ELSE [ pending |-> MapSet(stores.pending, result.receipt_id,
                              [ MapGet(stores.pending, result.receipt_id)
                                  EXCEPT !.status = "failed" ]),
           settled |-> stores.settled ]

\* One iteration of `for (const result of results)` over
\* stores = [ pending, settled ].
ApplyResult(stores, result) ==
    IF ~MapHas(stores.pending, result.receipt_id)
    THEN stores
    ELSE IF result.status = "settled"
    THEN [ pending |-> MapDelete(stores.pending, result.receipt_id),
           settled |-> Put(stores.settled, result.receipt_id,
                           SettledReceipt(MapGet(stores.pending, result.receipt_id),
                                          result.arweave_tx)) ]
    ELSE stores

RECURSIVE ApplyResults(_, _, _)
ApplyResults(stores, res, i) ==
    IF i > Len(res)
    THEN stores
    ELSE ApplyResults(ApplyResult(stores, res[i]), res, i + 1)

Stores ==
    [ pending |-> pendingReceipts, settled |-> settledReceipts ]

\* The tail of settleReceipts: the loop over the results, run to its end.
NoOutcome ==
    [ status |-> "none", error |-> "" ]

\* Every result of one call carries the same status and error.
Outcome(res) ==
    [ status |-> res[1].status, error |-> res[1].error ]

Apply(res) ==
    /\ outcome' = Outcome(res)
    /\ pendingReceipts' = ApplyResults(Stores, res, 1).pending
    /\ settledReceipts' = ApplyResults(Stores, res, 1).settled

\* The interval fires with receipts pending and no process configured:
\* settleToArweave returns its simulated results without suspending on I/O,
\* so the results are applied before any other task runs.
HttpTickSimulated ==
    /\ server = "http"
    /\ Len(pendingReceipts) > 0
    /\ targetProcess = "none"
    /\ Apply(SimulatedResults(pendingReceipts, now))
    /\ UNCHANGED << runs, returned, now, configVars, response, ledgerVars >>

\* The interval fires, a process is configured, loadWallet() finds nothing.
HttpTickNoWallet ==
    /\ server = "http"
    /\ Len(pendingReceipts) > 0
    /\ targetProcess # "none"
    /\ wallet = NoWallet
    /\ Apply(FailedResults(pendingReceipts, "No wallet configured"))
    /\ UNCHANGED << runs, returned, now, configVars, response, ledgerVars >>

\* A faulty interval that starts a run whether or not receipts are pending.
HttpTickStartUnguarded ==
    /\ server = "http"
    /\ targetProcess # "none"
    /\ wallet # NoWallet
    /\ Len(runs) < MaxRuns
    /\ runs' = Append(runs, [ batch     |-> pendingReceipts,
                              pc        |-> "message",
                              messageId |-> NullTx ])
    /\ UNCHANGED << pendingReceipts, settledReceipts, outcome, returned, now,
                    configVars, response, ledgerVars >>

\* A faulty interval that a failed tick has stopped.
HttpTickStartUnlessFailed ==
    /\ server = "http"
    /\ Len(pendingReceipts) > 0
    /\ targetProcess # "none"
    /\ wallet # NoWallet
    /\ Len(runs) < MaxRuns
    /\ outcome.status # "failed"
    /\ runs' = Append(runs, [ batch     |-> pendingReceipts,
                              pc        |-> "message",
                              messageId |-> NullTx ])
    /\ UNCHANGED << pendingReceipts, settledReceipts, outcome, returned, now,
                    configVars, response, ledgerVars >>

\* The interval fires: the batch is taken and the call suspends in message().
HttpTickStart ==
    /\ server = "http"
    /\ Len(pendingReceipts) > 0
    /\ targetProcess # "none"
    /\ wallet # NoWallet
    /\ Len(runs) < MaxRuns
    /\ runs' = Append(runs, [ batch     |-> pendingReceipts,
                              pc        |-> "message",
                              messageId |-> NullTx ])
    /\ UNCHANGED << pendingReceipts, settledReceipts, outcome, returned, now,
                    configVars, response, ledgerVars >>

\* The message settleToArweave sends.  settled_at is read from the clock when
\* the payload is built; the process never reads it.
StoreMessage(run) ==
    Message(wallet, "StoreReceipts", JsonText(BatchPayload(run.batch, now)))

\* message() returns the identifier of the message it sent.
HttpMessageOk(i) ==
    /\ runs[i].pc = "message"
    /\ Deliver(StoreMessage(runs[i]))
    /\ runs' = [ runs EXCEPT ![i].pc = "result",
                             ![i].messageId = StoreMessage(runs[i]).Id ]
    /\ UNCHANGED << pendingReceipts, settledReceipts, outcome, returned, now,
                    configVars, response >>

\* message() throws and nothing was sent: the catch branch fails the batch.
HttpMessageFail(i) ==
    /\ runs[i].pc = "message"
    /\ Apply(FailedResults(runs[i].batch, "transport error"))
    /\ runs' = SeqRemove(runs, i)
    /\ UNCHANGED << returned, now, configVars, response, ledgerVars >>

\* message() throws although the message reached the process (the
\* acknowledgement was lost).
HttpMessageLost(i) ==
    /\ runs[i].pc = "message"
    /\ Deliver(StoreMessage(runs[i]))
    /\ Apply(FailedResults(runs[i].batch, "transport error"))
    /\ runs' = SeqRemove(runs, i)
    /\ UNCHANGED << returned, now, configVars, response >>

\* result() returns; its output is read and not looked at.
HttpResultOk(i) ==
    /\ runs[i].pc = "result"
    /\ Apply(SettledResults(runs[i].batch, runs[i].messageId))
    /\ runs' = SeqRemove(runs, i)
    /\ UNCHANGED << returned, now, configVars, response, ledgerVars >>

\* result() throws.
HttpResultFail(i) ==
    /\ runs[i].pc = "result"
    /\ Apply(FailedResults(runs[i].batch, "transport error"))
    /\ runs' = SeqRemove(runs, i)
    /\ UNCHANGED << returned, now, configVars, response, ledgerVars >>

\* -------------------------------------------------- MCP server: settlement

\* The settled receipt simulateArweaveSettlement builds at instant t.
SimulatedSettled(pending, t) ==
    SettledReceipt(pending, [ kind |-> "simulated_tx", at |-> t ])

\* A run of simulateArweaveSettlement is suspended in its 100 ms timer,
\* holding the entry `cur` its iterator returned; `pos` is the number of map
\* entries in front of the iterator.
McpRun(pos, cur, t) ==
    [ pos |-> pos, cur |-> cur, since |-> t, pc |-> "timer", messageId |-> NullTx ]

\* The interval fires with receipts pending: the iterator yields the first
\* entry and the run suspends.
McpTickStart ==
    /\ server = "mcp"
    /\ Len(pendingReceipts) > 0
    /\ Len(runs) < MaxRuns
    /\ runs' = Append(runs, McpRun(1, pendingReceipts[1], now))
    /\ UNCHANGED << pendingReceipts, settledReceipts, outcome, returned, now,
                    configVars, response, ledgerVars >>

\* Deleting the map entry at index j moves every iterator behind it.
AfterDelete(rs, j) ==
    [ k \in 1..Len(rs) |->
        IF rs[k].pos >= j THEN [ rs[k] EXCEPT !.pos = rs[k].pos - 1 ] ELSE rs[k] ]

\* The runs after run i has deleted key k from the map `pending`.
RunsAfterDelete(rs, pending, k) ==
    IF MapHas(pending, k) THEN AfterDelete(rs, MapIndex(pending, k)) ELSE rs

\* The timer of run i ends (at least one clock unit later): the entry it
\* holds is settled and removed, and the iterator moves on or is exhausted.
McpSettleStep(i) ==
    /\ server = "mcp"
    /\ runs[i].pc = "timer"
    /\ now > runs[i].since
    /\ LET key == runs[i].cur.receipt_id
           pend == MapDelete(pendingReceipts, key)
           rs == RunsAfterDelete(runs, pendingReceipts, key)
       IN  /\ settledReceipts' = Put(settledReceipts, key,
                                     SimulatedSettled(runs[i].cur, now))
           /\ pendingReceipts' = pend
           /\ runs' = IF rs[i].pos < Len(pend)
                      THEN [ rs EXCEPT ![i] = McpRun(rs[i].pos + 1,
                                                     pend[rs[i].pos + 1], now) ]
                      ELSE SeqRemove(rs, i)
    /\ UNCHANGED << outcome, returned, now, configVars, response, ledgerVars >>

\* --------------------------------------------------------------- transport

\* Whether a property value is undefined (a string, a request record or
\* Undefined is given).
IsUndefined(x) ==
    Cardinality(DOMAIN x) = 1 /\ x[1] = -1

\* JSON.stringify of a receipt view: a property whose value is undefined is
\* left out.
StringifyReceipt(r) ==
    IF "full_payload" \in DOMAIN r /\ IsUndefined(r.full_payload)
    THEN [ f \in (DOMAIN r) \ { "full_payload" } |-> r[f] ]
    ELSE r

\* JSON.stringify(result) of a verification result.
StringifyResult(result) ==
    JsonText([ valid   |-> result.valid,
               receipt |-> StringifyReceipt(result.receipt),
               message |-> result.message ])

\* A plain text the MCP server returns as content.
PlainText(text) ==
    [ kind |-> "text", text |-> text ]

\* The decision records as they arrive: a required field may be missing
\* (undefined) or empty.
AnyRequests ==
    Requests \cup
    { [context |-> <<>>, logic |-> <<108>>, action |-> <<97>>, agent_id |-> Undefined],
      [context |-> <<99>>, logic |-> Undefined, action |-> <<97>>, agent_id |-> Undefined],
      [context |-> <<99>>, logic |-> <<108>>, action |-> <<>>, agent_id |-> <<103>>] }

\* The faulty check that looks at context only.
ValidRequestContextOnly(request) ==
    Truthy(request.context)

\* !(!request.context || !request.logic || !request.action)
ValidRequest(request) ==
    Truthy(request.context) /\ Truthy(request.logic) /\ Truthy(request.action)

\* The response to a request that fails the check.
ValidationError(srv) ==
    IF srv = "http"
    THEN [ code |-> 400,
           body |-> JsonText([ error |-> "Missing required fields: context, logic, action" ]) ]
    ELSE [ isError |-> TRUE,
           body    |-> PlainText("Error: context, logic, and action are required") ]

\* The response that carries the receipt witnessDecision returned.
WitnessResponse(srv, receipt) ==
    IF srv = "http"
    THEN [ code |-> 200,
           body |-> JsonText([ success |-> TRUE, receipt |-> receipt ]) ]
    ELSE [ isError |-> FALSE,
           body    |-> JsonText([ success |-> TRUE, receipt |-> receipt,
                                  message |-> "Decision witnessed. Receipt signature valid. Settlement pending." ]) ]

\* POST /witness, or the witness_decision tool: the request is checked, and
\* only a request that passes reaches witnessDecision.
WitnessCall(request, nonce) ==
    /\ IF ~ValidRequest(request)
       THEN /\ response' = ValidationError(server)
            /\ UNCHANGED << pendingReceipts, returned >>
       ELSE /\ pendingReceipts' = witnessDecision(pendingReceipts, request, now, nonce)
            /\ returned' = returned \cup { NewReceipt(request, now, nonce) }
            /\ response' = WitnessResponse(server, NewReceipt(request, now, nonce))
    /\ UNCHANGED << settledReceipts, runs, outcome, now, configVars, ledgerVars >>

\* The response to GET /verify/:receipt_id, or of the verify_receipt tool
\* (which refuses an empty receipt_id before it looks anything up).
VerifyResponse(srv, pending, settled, receipt_id) ==
    IF srv = "http"
    THEN [ code |-> IF verifyReceipt(srv, pending, settled, receipt_id).valid
                    THEN 200 ELSE 404,
           body |-> StringifyResult(verifyReceipt(srv, pending, settled, receipt_id)) ]
    ELSE IF ~Truthy(receipt_id)
    THEN [ isError |-> TRUE, body |-> PlainText("Error: receipt_id is required") ]
    ELSE [ isError |-> FALSE,
           body    |-> StringifyResult(verifyReceipt(srv, pending, settled, receipt_id)) ]

\* A faulty verify that drops the pending entry it has reported.
VerifyConsuming(receipt_id) ==
    /\ response' = VerifyResponse(server, pendingReceipts, settledReceipts, receipt_id)
    /\ pendingReceipts' = MapDelete(pendingReceipts, receipt_id)
    /\ UNCHANGED << settledReceipts, runs, outcome, returned, now, configVars,
                    ledgerVars >>

\* A caller verifies a receipt_id.
Verify(receipt_id) ==
    /\ response' = VerifyResponse(server, pendingReceipts, settledReceipts, receipt_id)
    /\ UNCHANGED << pendingReceipts, settledReceipts, runs, outcome, returned, now,
                    configVars, ledgerVars >>

\* ------------------------------------------------------------ environment

\* A millisecond passes.
Advance ==
    /\ now < MaxTime
    /\ now' = now + 1
    /\ UNCHANGED << serverVars, configVars, response, ledgerVars >>

\* The owner freezes or unfreezes the ledger process the server settles to.
OwnerAdmin(action) ==
    /\ server = "http"
    /\ targetProcess # "none"
    /\ wallet # NoWallet
    /\ Deliver(Message(OwnerAddr, action, RawText(<< >>)))
    /\ UNCHANGED << serverVars, now, configVars, response >>

\* ---------------------------------------------------------- specification

Configurations ==
    { << "mcp", "none", NoWallet >>,
      << "http", "none", NoWallet >>,
      << "http", "proc", NoWallet >>,
      << "http", "proc", OwnerAddr >>,
      << "http", "proc", OtherAddr >> }

Init ==
    /\ \E c \in Configurations :
          /\ server = c[1]
          /\ targetProcess = c[2]
          /\ wallet = c[3]
    /\ now = 0
    /\ pendingReceipts = << >>
    /\ settledReceipts = EmptyTable
    /\ runs = << >>
    /\ State = InitialState
    /\ lastMsg = NoMsg
    /\ lastReply = NoReply
    /\ outcome = NoOutcome
    /\ returned = {}
    /\ response = NoResponse

Next ==
    \/ \E request \in Requests, nonce \in Nonces : Witness(request, nonce)
    \/ HttpTickSimulated
    \/ HttpTickNoWallet
    \/ HttpTickStart
    \/ \E i \in 1..Len(runs) : HttpMessageOk(i)
    \/ \E i \in 1..Len(runs) : HttpMessageFail(i)
    \/ \E i \in 1..Len(runs) : HttpMessageLost(i)
    \/ \E i \in 1..Len(runs) : HttpResultOk(i)
    \/ \E i \in 1..Len(runs) : HttpResultFail(i)
    \/ McpTickStart
    \/ \E i \in 1..Len(runs) : McpSettleStep(i)
    \/ Advance
    \/ \E action \in { "Freeze", "Unfreeze" } : OwnerAdmin(action)

Spec ==
    Init /\ [][Next]_vars

\* ------------------------------------------- specifications of single parts

\* The HTTP server with no process configured (VERITAS_PROCESS_ID unset).
WideRequests ==
    Requests \cup
    { [context |-> <<99>>, logic |-> <<108>>, action |-> <<98>>,
       agent_id |-> Undefined],
      [context |-> <<99>>, logic |-> <<108>>, action |-> <<98>>,
       agent_id |-> <<103>>] }

InitSimulated ==
    Init /\ server = "http" /\ targetProcess = "none"

NextSimulated ==
    \/ \E request \in WideRequests, nonce \in Nonces : Witness(request, nonce)
    \/ HttpTickSimulated
    \/ Advance

SpecSimulated ==
    InitSimulated /\ [][NextSimulated]_vars

\* The HTTP server with a process configured and no wallet on disk.
InitNoWallet ==
    Init /\ server = "http" /\ targetProcess = "proc" /\ wallet = NoWallet

NextNoWallet ==
    \/ \E request \in WideRequests, nonce \in Nonces : Witness(request, nonce)
    \/ HttpTickNoWallet
    \/ Advance

SpecNoWallet ==
    InitNoWallet /\ [][NextNoWallet]_vars

\* The HTTP server settling to a process with a wallet, under the fairness
\* of a running service: the interval keeps firing (weak fairness), and
\* calls to the ledger succeed again and again (strong fairness; for
\* message() it is written out with the enabling condition of the step,
\* a run suspended in message()).
InitSettle ==
    Init /\ server = "http" /\ targetProcess = "proc" /\ wallet # NoWallet

NextSettle ==
    \/ \E request \in Requests, nonce \in Nonces : Witness(request, nonce)
    \/ HttpTickStart
    \/ \E i \in 1..Len(runs) : HttpMessageOk(i)
    \/ \E i \in 1..Len(runs) : HttpMessageFail(i)
    \/ \E i \in 1..Len(runs) : HttpMessageLost(i)
    \/ \E i \in 1..Len(runs) : HttpResultOk(i)
    \/ \E i \in 1..Len(runs) : HttpResultFail(i)
    \/ Advance

SpecSettle ==
    /\ InitSettle
    /\ [][NextSettle]_vars
    /\ WF_vars(HttpTickStart)
    /\ ([]<>(\E i \in 1..Len(runs) : runs[i].pc = "message")
           => []<><<\E i \in 1..Len(runs) : HttpMessageOk(i)>>_vars)
    /\ SF_vars(\E i \in 1..Len(runs) : HttpResultOk(i))

\* The ledger process alone, sent messages by anyone.
Senders == { OwnerAddr, OtherAddr, Nil }

EntryA ==
    ReceiptSummary(WithPayload(
        NewReceipt([context |-> <<99>>, logic |-> <<108>>, action |-> <<97>>,
                    agent_id |-> Undefined], 0, 1),
        [context |-> <<99>>, logic |-> <<108>>, action |-> <<97>>,
         agent_id |-> Undefined]))

\* The same receipt_id with another action.
EntryA2 ==
    [ EntryA EXCEPT !.action = <<120>> ]

EntryB ==
    ReceiptSummary(WithPayload(
        NewReceipt([context |-> <<99>>, logic |-> <<108>>, action |-> <<98>>,
                    agent_id |-> Undefined], 0, 1),
        [context |-> <<99>>, logic |-> <<108>>, action |-> <<98>>,
         agent_id |-> Undefined]))

\* An entry without a receipt_id.
EntryNoId ==
    [ EntryB EXCEPT !.receipt_id = NilId ]

Batches ==
    { << >>, << EntryA >>, << EntryA2 >>, << EntryB >>, << EntryA, EntryA2 >>,
      << EntryA2, EntryB >>, << EntryNoId, EntryA >>, << EntryB, EntryB >> }

Datas ==
    { RawText(<< >>), RawText(<< 123 >>), JsonText([ type |-> "VeritasReceiptBatch" ]) }
        \cup { JsonText([ receipts |-> b ]) : b \in Batches }

LedgerSend(from, action, data) ==
    /\ Deliver(Message(from, action, data))
    /\ UNCHANGED << serverVars, now, configVars, response >>

InitLedger ==
    Init /\ server = "http" /\ targetProcess = "proc" /\ wallet = OwnerAddr

NextLedger ==
    \/ \E from \in Senders, data \in Datas : LedgerSend(from, "StoreReceipts", data)
    \/ \E from \in Senders : LedgerSend(from, "Freeze", RawText(<< >>))
    \/ \E from \in Senders : LedgerSend(from, "Unfreeze", RawText(<< >>))
    \/ Advance

SpecLedger ==
    InitLedger /\ [][NextLedger]_vars

\* Either server in any configuration, the ledger process never frozen.
NextServers ==
    \/ \E request \in Requests, nonce \in Nonces : Witness(request, nonce)
    \/ HttpTickSimulated
    \/ HttpTickNoWallet
    \/ HttpTickStart
    \/ \E i \in 1..Len(runs) : HttpMessageOk(i)
    \/ \E i \in 1..Len(runs) : HttpMessageFail(i)
    \/ \E i \in 1..Len(runs) : HttpMessageLost(i)
    \/ \E i \in 1..Len(runs) : HttpResultOk(i)
    \/ \E i \in 1..Len(runs) : HttpResultFail(i)
    \/ McpTickStart
    \/ \E i \in 1..Len(runs) : McpSettleStep(i)
    \/ Advance

SpecServers ==
    Init /\ [][NextServers]_vars

\* The two servers as their callers see them, with no process configured:
\* requests of any shape, randomised signatures, verification of any id.
WideNonces == { 1, 2 }

\* A receipt_id no witness call returns, and the empty receipt_id.
UnknownId == << "vts_", << 0, << >> >> >>
EmptyId == << >>

QueryIds ==
    { generateReceiptId(hashWitnessRequest(request, t)) :
        request \in Requests, t \in 0..MaxTime } \cup { UnknownId, EmptyId }

InitFrontEnd ==
    Init /\ targetProcess = "none"

NextFrontEnd ==
    \/ \E request \in AnyRequests, nonce \in WideNonces : WitnessCall(request, nonce)
    \/ \E receipt_id \in QueryIds : Verify(receipt_id)
    \/ HttpTickSimulated
    \/ McpTickStart
    \/ \E i \in 1..Len(runs) : McpSettleStep(i)
    \/ Advance

SpecFrontEnd ==
    InitFrontEnd /\ [][NextFrontEnd]_vars

\* The same callers, every signature made with one nonce.
NextCallers ==
    \/ \E request \in AnyRequests, nonce \in Nonces : WitnessCall(request, nonce)
    \/ \E receipt_id \in QueryIds : Verify(receipt_id)
    \/ HttpTickSimulated
    \/ McpTickStart
    \/ \E i \in 1..Len(runs) : McpSettleStep(i)
    \/ Advance

SpecCallers ==
    InitFrontEnd /\ [][NextCallers]_vars

\* verifyReceipt as a function of the two maps it reads.  The maps are drawn
\* from a bounded set: every receipt is absent, pending or settled, and its
\* stored signature is the one signHash made, one made with another key, or
\* one made over another hash.
StoredSignatures(hash) ==
    { signHash(hash, 1),
      [ signer |-> "sk_other", over |-> hash, nonce |-> 1 ],
      [ signer |-> privateKey, over |-> Sha256Hex(<< hash >>), nonce |-> 1 ] }

StoredRequest ==
    CHOOSE request \in Requests : TRUE

\* Where each receipt is and the signature stored with it.
Dispositions ==
    { [ in |-> "absent", signature |-> 0 ] } \cup
    { [ in |-> w, signature |-> k ] : w \in { "pending", "settled" }, k \in 1..3 }

StoredSignature(hash, k) ==
    CHOOSE signature \in StoredSignatures(hash) :
        \/ k = 1 /\ signature = signHash(hash, 1)
        \/ k = 2 /\ signature.signer # privateKey
        \/ k = 3 /\ signature.over # hash

StoredEntry(t, k) ==
    [ WithPayload(NewReceipt(StoredRequest, t, 1), StoredRequest)
        EXCEPT !.signature = StoredSignature(hashWitnessRequest(StoredRequest, t), k) ]

RECURSIVE PendingUpTo(_, _)
PendingUpTo(d, t) ==
    IF t < 0
    THEN << >>
    ELSE IF d[t].in = "pending"
    THEN Append(PendingUpTo(d, t - 1), StoredEntry(t, d[t].signature))
    ELSE PendingUpTo(d, t - 1)

SettledTx(srv, t, receipt_id) ==
    IF srv = "http"
    THEN [ kind |-> "sim", at |-> t, id |-> receipt_id ]
    ELSE [ kind |-> "simulated_tx", at |-> t ]

SettledOf(srv, d) ==
    [ receipt_id \in { StoredEntry(t, 1).receipt_id :
                         t \in { u \in 0..MaxTime : d[u].in = "settled" } } |->
        LET t == CHOOSE u \in 0..MaxTime :
                     StoredEntry(u, 1).receipt_id = receipt_id
        IN  SettledReceipt(StoredEntry(t, d[t].signature),
                           SettledTx(srv, t, receipt_id)) ]

InitVerify ==
    /\ server \in { "http", "mcp" }
    /\ targetProcess = "none"
    /\ wallet = NoWallet
    /\ now = MaxTime
    /\ \E d \in [ 0..MaxTime -> Dispositions ] :
          /\ pendingReceipts = PendingUpTo(d, MaxTime)
          /\ settledReceipts = SettledOf(server, d)
    /\ runs = << >>
    /\ State = InitialState
    /\ lastMsg = NoMsg
    /\ lastReply = NoReply
    /\ outcome = NoOutcome
    /\ returned = {}
    /\ response = NoResponse

NextVerify ==
    \E receipt_id \in QueryIds : Verify(receipt_id)

SpecVerify ==
    InitVerify /\ [][NextVerify]_vars

\* The HTTP server with a process and the owner's wallet, within one
\* millisecond and up to the return of message(): the decisions witnessed
\* include a logic of exactly LogicSummaryLen characters and a longer one,
\* and every batch a tick takes is sent.
LongLogic(n) ==
    [ i \in 1..n |-> 108 ]

DisclosureRequests ==
    Requests \cup
    { [context |-> <<99, 111, 110>>, logic |-> LongLogic(LogicSummaryLen),
       action |-> <<97>>, agent_id |-> Undefined],
      [context |-> <<99, 111, 110>>, logic |-> LongLogic(LogicSummaryLen + 1),
       action |-> <<97, 99, 116>>, agent_id |-> <<103>>] }

InitDisclosure ==
    Init /\ server = "http" /\ targetProcess = "proc" /\ wallet = OwnerAddr

NextDisclosure ==
    \/ \E request \in DisclosureRequests, nonce \in Nonces : Witness(request, nonce)
    \/ HttpTickStart
    \/ \E i \in 1..Len(runs) : HttpMessageOk(i)

SpecDisclosure ==
    InitDisclosure /\ [][NextDisclosure]_vars

\* The ledger process holding receipts the owner has stored, queried by
\* anyone.  The numbers of stored receipts include one above DefaultLimit.
ListedId(k) ==
    << "vts_", << k, << >> >> >>

ListedEntry(k) ==
    [ EntryA EXCEPT !.receipt_id = ListedId(k), !.timestamp_ms = k ]

StoreSizes == { 0, 1, 3, DefaultLimit + 1 }

ListedState(n, frozen) ==
    [ InitialState EXCEPT
        !.Receipts = [ id \in { ListedId(k) : k \in 1..n } |->
                         StoredRecord(ListedEntry(id[2][1]),
                                      [ Id |-> MsgId(1), Timestamp |-> 0 ]) ],
        !.ReceiptCount = n,
        !.Frozen = frozen ]

\* The orders pairs() may walk the table of n stored receipts in: every
\* order of a small table, two opposite orders of a large one.
Orders(n) ==
    IF n <= 3
    THEN { o \in [ 1..n -> { ListedId(k) : k \in 1..n } ] :
             \A i, j \in 1..n : i # j => o[i] # o[j] }
    ELSE { [ i \in 1..n |-> ListedId(i) ], [ i \in 1..n |-> ListedId(n + 1 - i) ] }

ReceiptIdTags == { NilId, << >>, ListedId(1), UnknownId }

LimitTags ==
    { NoLimit, TextLimit } \cup
    { NumberLimit(h) : h \in { -2, 0, 2, 4, 5, 6, 2 * DefaultLimit + 2 } }

QueryDatas ==
    { RawText(<< >>), RawText(ListedId(1)), RawText(UnknownId),
      JsonText([ receipt_id |-> ListedId(3) ]),
      JsonText([ type |-> "VeritasReceiptBatch" ]) }

LedgerQuery(from, action, receiptIdTag, limitTag, data, order) ==
    /\ DeliverQuery(Query(from, action, receiptIdTag, limitTag, data), order)
    /\ UNCHANGED << serverVars, now, configVars, response >>

InitQueries ==
    /\ server = "http"
    /\ targetProcess = "proc"
    /\ wallet = OwnerAddr
    /\ now = 0
    /\ pendingReceipts = << >>
    /\ settledReceipts = EmptyTable
    /\ runs = << >>
    /\ State \in { ListedState(n, frozen) : n \in StoreSizes, frozen \in BOOLEAN }
    /\ lastMsg = NoMsg
    /\ lastReply = NoReply
    /\ outcome = NoOutcome
    /\ returned = {}
    /\ response = NoResponse

NextQueries ==
    \/ \E from \in Senders, receiptIdTag \in ReceiptIdTags, data \in QueryDatas :
          LedgerQuery(from, "GetReceipt", receiptIdTag, NoLimit, data, << >>)
    \/ \E from \in Senders, limitTag \in LimitTags,
             order \in Orders(State.ReceiptCount) :
          LedgerQuery(from, "ListReceipts", NilId, limitTag, RawText(<< >>), order)
    \/ \E from \in Senders, receiptIdTag \in ReceiptIdTags, data \in QueryDatas :
          LedgerQuery(from, "VerifyReceipt", receiptIdTag, NoLimit, data, << >>)
    \/ \E from \in Senders :
          LedgerQuery(from, "GetStats", NilId, NoLimit, RawText(<< >>), << >>)

SpecQueries ==
    InitQueries /\ [][NextQueries]_vars

\* ------------------------------------------------------------------ claims

\* The receipt_ids witnessDecision has returned.
ReturnedIds ==
    { r.receipt_id : r \in returned }

InPending(id) ==
    MapHas(pendingReceipts, id)

InSettled(id) ==
    id \in DOMAIN settledReceipts

\* C1: every receipt_id that witness has returned is a key of exactly one of
\* the pending store and the settled store: never both, never neither.
C1_ExactlyOneStore ==
    \A id \in ReturnedIds : InPending(id) # InSettled(id)

\* C2: once a receipt_id is in the settled store, no later step changes its
\* ledger_tx, drops it from the settled store or puts it back into the
\* pending store.
C2_AtMostOneSettlement ==
    [][ \A id \in DOMAIN settledReceipts :
          /\ id \in DOMAIN settledReceipts'
          /\ settledReceipts'[id].arweave_tx = settledReceipts[id].arweave_tx
          /\ ~MapHas(pendingReceipts', id) ]_vars

\* C3: a receipt is promoted to settled only when the ledger accepted the
\* batch, so with a process configured every locally settled receipt is a
\* record stored in the ledger.
C3_SettledOnlyIfStored ==
    (server = "http" /\ targetProcess # "none") =>
        \A id \in DOMAIN settledReceipts : id \in DOMAIN State.Receipts

\* C4: when the acknowledgement of a batch is applied, every receipt of that
\* batch is in the settled store with status settled, and all receipts of
\* the batch carry the same ledger_tx.
C4_BatchSharesOneTx ==
    [][ \A i \in 1..Len(runs) :
          HttpResultOk(i) =>
            \A j, k \in 1..Len(runs[i].batch) :
              LET a == runs[i].batch[j].receipt_id
                  b == runs[i].batch[k].receipt_id
              IN  /\ a \in DOMAIN settledReceipts'
                  /\ settledReceipts'[a].status = "settled"
                  /\ settledReceipts'[a].arweave_tx = settledReceipts'[b].arweave_tx
      ]_vars

PossibleIds ==
    { NewReceipt(request, t, nonce).receipt_id :
        request \in Requests, t \in 0..MaxTime, nonce \in Nonces }

\* A step in which the ledger call of run i fails.
HttpCallFails(i) ==
    HttpMessageFail(i) \/ HttpMessageLost(i) \/ HttpResultFail(i)

\* C7: with a ledger configured, the interval firing again and again and
\* ledger calls succeeding again and again, every pending receipt is
\* eventually in the settled store; a failed ledger call leaves every
\* receipt of its batch pending and unchanged, and every later tick submits
\* the whole pending store again.
C7_EventuallySettled ==
    /\ \A id \in PossibleIds : InPending(id) ~> InSettled(id)
    /\ [][ /\ \A i \in 1..Len(runs) :
                HttpCallFails(i) =>
                  /\ pendingReceipts' = pendingReceipts
                  /\ settledReceipts' = settledReceipts
           /\ HttpTickStart => runs'[Len(runs')].batch = pendingReceipts ]_vars

\* A receipt is settled under a message other than the one that stored it
\* in the ledger: its batch was submitted more than once.
C7_SettledAfterResubmission ==
    /\ runs = << >>
    /\ outcome.status = "settled"
    /\ \E id \in DOMAIN settledReceipts :
         /\ id \in DOMAIN State.Receipts
         /\ State.Receipts[id].message_id # settledReceipts[id].arweave_tx

\* The first entry of batch b that carries receipt_id id.
FirstEntry(b, id) ==
    b[CHOOSE i \in 1..Len(b) :
        /\ b[i].receipt_id = id
        /\ \A j \in 1..(i - 1) : b[j].receipt_id # id]

\* C8: for every StoreReceipts message, a record already stored is left as it
\* is (fields, stored_at, message_id), a receipt_id the batch carries for
\* the first time gets one record built from the first entry of the batch
\* that carries it, and ReceiptCount grows by the number of new receipt_ids.
C8_StoreIsIdempotent ==
    [][ \A from \in Senders, b \in Batches :
          LedgerSend(from, "StoreReceipts", JsonText([ receipts |-> b ])) =>
            /\ \A id \in DOMAIN State.Receipts :
                 /\ id \in DOMAIN State'.Receipts
                 /\ State'.Receipts[id] = State.Receipts[id]
            /\ \A id \in (DOMAIN State'.Receipts) \ (DOMAIN State.Receipts) :
                 State'.Receipts[id] =
                     StoredRecord(FirstEntry(b, id),
                                  [ Id |-> FreshMsgId, Timestamp |-> now ])
            /\ State'.ReceiptCount - State.ReceiptCount =
                   Cardinality((DOMAIN State'.Receipts) \ (DOMAIN State.Receipts))
      ]_vars

\* An accepted batch carried a receipt_id that was stored before or that it
\* carries twice: fewer records were stored than it has entries.
C8_DuplicateSubmitted ==
    /\ lastMsg.Action = "StoreReceipts"
    /\ lastReply.Action = "ReceiptsStored"
    /\ \A i \in 1..Len(lastMsg.Ids) : lastMsg.Ids[i] # NilId
    /\ lastReply.Data.value.stored_count < Len(lastMsg.Ids)
    /\ State.ReceiptCount > 0

\* The messages of the three state-mutating handlers.
MutatingSends(from) ==
    \/ \E data \in Datas : LedgerSend(from, "StoreReceipts", data)
    \/ LedgerSend(from, "Freeze", RawText(<< >>))
    \/ LedgerSend(from, "Unfreeze", RawText(<< >>))

\* C9 (as stated): a StoreReceipts, Freeze or Unfreeze message whose From is
\* absent or differs from State.Owner leaves State unchanged and is answered
\* with an Error reply.
C9_NonOwnerGetsError ==
    [][ \A from \in Senders :
          (from # State.Owner /\ MutatingSends(from)) =>
            /\ State' = State
            /\ lastReply'.Action = "Error" ]_vars

\* C9 (amended): a StoreReceipts, Freeze or Unfreeze message whose From is
\* absent or differs from State.Owner leaves State unchanged; it is answered
\* with an Error reply to its sender when From is present, and with nothing
\* when From is absent.
C9_NonOwnerChangesNothing ==
    [][ \A from \in Senders :
          (from # State.Owner /\ MutatingSends(from)) =>
            /\ State' = State
            /\ from # Nil =>
                 /\ lastReply'.Action = "Error"
                 /\ lastReply'.Target = from
            /\ from = Nil => lastReply' = NoReply ]_vars

\* A sender other than the owner has been refused while records are stored.
C9_NonOwnerRefused ==
    /\ lastMsg.From = OtherAddr
    /\ lastMsg.Action \in { "StoreReceipts", "Freeze", "Unfreeze" }
    /\ lastReply.Action = "Error"
    /\ State.ReceiptCount > 0

\* C10: while Frozen is true no message changes Receipts or ReceiptCount, and
\* Frozen becomes false only by an Unfreeze message from the owner.
C10_FrozenStoresNothing ==
    [][ State.Frozen =>
          /\ State'.Receipts = State.Receipts
          /\ State'.ReceiptCount = State.ReceiptCount
          /\ ~State'.Frozen =>
               /\ lastMsg'.Action = "Unfreeze"
               /\ lastMsg'.From = State.Owner ]_vars

\* The owner has sent a batch with a receipt while the ledger was frozen.
C10_OwnerStoreWhileFrozen ==
    /\ State.Frozen
    /\ lastMsg.Action = "StoreReceipts"
    /\ lastMsg.From = OwnerAddr
    /\ Len(lastMsg.Ids) > 0
    /\ lastReply.Action = "Error"

\* C11: every receipt witness has returned keeps its receipt_id in a store,
\* bound there to the hash, signature and timestamp_ms that were returned.
C11_IdKeepsItsBinding ==
    \A r \in returned :
        /\ InPending(r.receipt_id) \/ InSettled(r.receipt_id)
        /\ InPending(r.receipt_id) =>
             /\ MapGet(pendingReceipts, r.receipt_id).hash = r.hash
             /\ MapGet(pendingReceipts, r.receipt_id).signature = r.signature
             /\ MapGet(pendingReceipts, r.receipt_id).timestamp_ms = r.timestamp_ms
        /\ InSettled(r.receipt_id) =>
             /\ settledReceipts[r.receipt_id].hash = r.hash
             /\ settledReceipts[r.receipt_id].signature = r.signature
             /\ settledReceipts[r.receipt_id].timestamp_ms = r.timestamp_ms

\* C12: in every reachable state, verify on any receipt_id witness has
\* returned reports valid = true, whether the receipt is pending, was left
\* pending by a failed ledger call, or is settled.
C12_AlwaysValid ==
    \A r \in returned :
        verifyReceipt(server, pendingReceipts, settledReceipts, r.receipt_id).valid

\* One returned receipt is settled, another is still pending after a ledger
\* call that failed, and both verify.
C12_ValidSettledAndRetried ==
    /\ outcome.status = "failed"
    /\ \E r1, r2 \in returned :
         /\ InSettled(r1.receipt_id)
         /\ InPending(r2.receipt_id) /\ ~InSettled(r2.receipt_id)
         /\ verifyReceipt(server, pendingReceipts, settledReceipts, r1.receipt_id).valid
         /\ verifyReceipt(server, pendingReceipts, settledReceipts, r2.receipt_id).valid

\* verify on receipt_id, asked right after the step, reports a valid
\* settled receipt with a transaction.
VerifiesSettledNext(receipt_id) ==
    LET v == verifyReceipt(server, pendingReceipts', settledReceipts', receipt_id)
    IN  /\ v.valid
        /\ v.receipt.status = "settled"
        /\ v.receipt.arweave_tx # NullTx

\* C13: when a tick ends successfully (the ledger call of a run returns, the
\* simulated tick runs, or a simulated settlement step of the MCP server
\* ends), verify on every receipt_id of its snapshot returns valid = true,
\* status settled and a non-null ledger_tx.
C13_SettledAfterTick ==
    [][ /\ \A i \in 1..Len(runs) :
             HttpResultOk(i) =>
               \A j \in 1..Len(runs[i].batch) :
                 VerifiesSettledNext(runs[i].batch[j].receipt_id)
        /\ HttpTickSimulated =>
             \A id \in MapKeys(pendingReceipts) : VerifiesSettledNext(id)
        /\ \A i \in 1..Len(runs) :
             McpSettleStep(i) => VerifiesSettledNext(runs[i].cur.receipt_id) ]_vars

\* A tick against the ledger process has ended successfully and verify
\* reports a receipt settled under a message id.
C13_TickSettledReceipt ==
    /\ targetProcess = "proc"
    /\ outcome.status = "settled"
    /\ \E r \in returned :
         LET v == verifyReceipt(server, pendingReceipts, settledReceipts, r.receipt_id)
         IN  v.valid /\ v.receipt.status = "settled" /\ v.receipt.arweave_tx.kind = "msg"

\* C14: verify on a returned receipt that is pending and that no tick has
\* settled reports valid = true, status pending, a null ledger_tx and the
\* message that settlement is pending.
C14_FreshReceiptIsPending ==
    \A r \in returned :
        (InPending(r.receipt_id) /\ ~InSettled(r.receipt_id)) =>
            LET v == verifyReceipt(server, pendingReceipts, settledReceipts,
                                   r.receipt_id)
            IN  /\ v.valid
                /\ v.receipt.status = "pending"
                /\ v.receipt.arweave_tx = NullTx
                /\ v.message = "Receipt verified, settlement pending"

\* A caller has just verified a receipt that is pending and not settled.
C14_PendingReceiptVerified ==
    \E r \in returned :
        /\ InPending(r.receipt_id) /\ ~InSettled(r.receipt_id)
        /\ response = VerifyResponse(server, pendingReceipts, settledReceipts,
                                     r.receipt_id)

\* The result verifyReceipt gives for a receipt_id in the current maps.
Verdict(receipt_id) ==
    verifyReceipt(server, pendingReceipts, settledReceipts, receipt_id)

\* The stored entry verifyReceipt finds for a receipt_id, settled map first.
Stored(receipt_id) ==
    IF InSettled(receipt_id)
    THEN settledReceipts[receipt_id]
    ELSE MapGet(pendingReceipts, receipt_id)

\* C15: a receipt_id in neither map is reported valid = false with a null
\* receipt and "Receipt not found", never "Invalid signature"; a stored
\* receipt whose signature check fails is reported valid = false with
\* "Invalid signature" and its receipt view, never as not found.
C15_NotFoundAndInvalidAreDistinct ==
    \A receipt_id \in QueryIds :
        /\ (~InPending(receipt_id) /\ ~InSettled(receipt_id)) =>
              /\ ~Verdict(receipt_id).valid
              /\ Verdict(receipt_id).receipt = NullReceipt
              /\ Verdict(receipt_id).message = "Receipt not found"
        /\ ((InPending(receipt_id) \/ InSettled(receipt_id))
                /\ ~verifySignature(Stored(receipt_id).hash,
                                    Stored(receipt_id).signature)) =>
              /\ ~Verdict(receipt_id).valid
              /\ Verdict(receipt_id).message = "Invalid signature"
              /\ Verdict(receipt_id).receipt # NullReceipt
              /\ Verdict(receipt_id).receipt.receipt_id = receipt_id

\* A caller has just verified a stored receipt whose signature does not
\* verify, in a state where another receipt_id is in neither map.
C15_InvalidStoredReceiptVerified ==
    \E receipt_id \in QueryIds :
        /\ InPending(receipt_id) \/ InSettled(receipt_id)
        /\ ~verifySignature(Stored(receipt_id).hash, Stored(receipt_id).signature)
        /\ response = VerifyResponse(server, pendingReceipts, settledReceipts,
                                     receipt_id)
        /\ \E other \in QueryIds :
              Truthy(other) /\ ~InPending(other) /\ ~InSettled(other)

\* A required field of the request is missing or empty.
MissingField(request) ==
    \/ request.context \in { Undefined, Null, << >> }
    \/ request.logic \in { Undefined, Null, << >> }
    \/ request.action \in { Undefined, Null, << >> }

\* C16: a witness call whose context, logic or action is missing or empty is
\* answered with the validation error, no receipt is hashed, signed or
\* returned, and the pending and settled stores stay as they were.
C16_InvalidRequestRejected ==
    [][\A request \in AnyRequests, nonce \in WideNonces :
           (MissingField(request) /\ WitnessCall(request, nonce)) =>
               /\ response' = ValidationError(server)
               /\ returned' = returned
               /\ pendingReceipts' = pendingReceipts
               /\ settledReceipts' = settledReceipts]_vars

\* A request with a missing field has been refused while a receipt was
\* pending.
C16_InvalidRequestRefused ==
    /\ response = ValidationError(server)
    /\ Len(pendingReceipts) > 0

\* C17: a verify call, for an unknown, a pending or a settled receipt_id,
\* leaves the pending store and the settled store exactly as they were.
C17_VerifyMutatesNothing ==
    [][\A receipt_id \in QueryIds :
           Verify(receipt_id) =>
               /\ pendingReceipts' = pendingReceipts
               /\ settledReceipts' = settledReceipts]_vars

\* A caller has just verified a pending receipt while another receipt is
\* settled.
C17_VerifiedWithBothStoresFilled ==
    \E receipt_id \in QueryIds :
        /\ InPending(receipt_id) /\ ~InSettled(receipt_id)
        /\ DOMAIN settledReceipts # {}
        /\ response = VerifyResponse(server, pendingReceipts, settledReceipts,
                                     receipt_id)

\* Every pending receipt has status pending and a null ledger_tx.
PendingHaveNoTx ==
    \A i \in 1..Len(pendingReceipts) :
        /\ pendingReceipts[i].status = "pending"
        /\ pendingReceipts[i].arweave_tx = NullTx

ReceiptFields ==
    { "receipt_id", "signature", "timestamp_ms", "hash", "arweave_tx", "status" }

\* The receipt in the body of the last response, if it carries one.
ResponseReceipts ==
    IF "body" \in DOMAIN response
          /\ response.body.kind = "json"
          /\ "receipt" \in DOMAIN response.body.value
    THEN { response.body.value.receipt }
    ELSE { }

\* C19: no record of the settled store carries the full payload; the receipt
\* witness returns, the receipt view verify builds for any receipt_id and the
\* receipt in any response body have no context, logic or action and no
\* payload (the HTTP server's pending view holds full_payload as undefined,
\* which JSON.stringify leaves out).
C19_PayloadNeverExposed ==
    /\ \A id \in DOMAIN settledReceipts :
          DOMAIN settledReceipts[id] = ReceiptFields
    /\ \A r \in returned : DOMAIN r = ReceiptFields
    /\ \A receipt_id \in QueryIds :
          LET view == Verdict(receipt_id).receipt
          IN  /\ (DOMAIN view) \ { "full_payload" } \in { ReceiptFields, { "null" } }
              /\ "full_payload" \in DOMAIN view => IsUndefined(view.full_payload)
    /\ \A receipt \in ResponseReceipts :
          DOMAIN receipt \in { ReceiptFields, { "null" } }

\* A caller has just verified a settled receipt while a receipt with its
\* payload is pending.
C19_SettledVerifiedWhilePending ==
    \E receipt_id \in QueryIds :
        /\ InSettled(receipt_id)
        /\ \E i \in 1..Len(pendingReceipts) :
              /\ pendingReceipts[i].receipt_id # receipt_id
              /\ "full_payload" \in DOMAIN pendingReceipts[i]
        /\ response = VerifyResponse(server, pendingReceipts, settledReceipts,
                                     receipt_id)
        /\ ResponseReceipts # { }

\* The fields of one receipt entry of a batch.
SummaryFields ==
    { "receipt_id", "hash", "signature", "timestamp_ms", "context_hash",
      "logic_summary", "action", "agent_id" }

\* The receipt entries of the batch a run sends with message().
SentEntries(run) ==
    StoreMessage(run).Data.value.receipts

\* C20: each receipt entry of a batch sent to the ledger has exactly the
\* fields receipt_id, hash, signature, timestamp_ms, context_hash,
\* logic_summary, action and agent_id; context_hash is hashString of the
\* context (at most 8 hex characters, not the context), logic_summary is the
\* prefix of logic of at most 200 characters (never a longer logic), action is
\* the full action and agent_id is the agent_id or null.
C20_BatchDisclosesMinimum ==
    [][\A i \in 1..Len(runs) :
          HttpMessageOk(i) =>
            /\ Len(SentEntries(runs[i])) = Len(runs[i].batch)
            /\ \A j \in 1..Len(runs[i].batch) :
                 LET entry == SentEntries(runs[i])[j]
                     r     == runs[i].batch[j]
                 IN  /\ DOMAIN entry = SummaryFields
                     /\ entry.receipt_id = r.receipt_id
                     /\ entry.hash = r.hash
                     /\ entry.signature = r.signature
                     /\ entry.timestamp_ms = r.timestamp_ms
                     /\ entry.context_hash = hashString(r.full_payload.context)
                     /\ Len(entry.context_hash) <= 8
                     /\ entry.context_hash # r.full_payload.context
                     /\ Len(entry.logic_summary) <= 200
                     /\ entry.logic_summary =
                            SubSeq(r.full_payload.logic, 1, Len(entry.logic_summary))
                     /\ Len(r.full_payload.logic) <= 200 =>
                            entry.logic_summary = r.full_payload.logic
                     /\ Len(r.full_payload.logic) > 200 =>
                            /\ Len(entry.logic_summary) = 200
                            /\ entry.logic_summary # r.full_payload.logic
                     /\ entry.action = r.full_payload.action
                     /\ entry.agent_id =
                            IF r.full_payload.agent_id \in { Undefined, Null, << >> }
                            THEN Null
                            ELSE r.full_payload.agent_id]_vars

\* A batch with a receipt whose logic is longer than 200 characters has been
\* sent to the ledger.
C20_LongLogicSent ==
    \E i \in 1..Len(runs) :
        /\ runs[i].pc = "result"
        /\ \E j \in 1..Len(runs[i].batch) :
              /\ Len(runs[i].batch[j].full_payload.logic) > 200
              /\ runs[i].batch[j].receipt_id \in DOMAIN State.Receipts

\* C21: every receipt witness has returned carries a signature that
\* verifies against its hash under the server's public key, and a receipt_id
\* that is "vts_" followed by the first 16 characters of its hash, so that
\* two receipts with the same hash have the same receipt_id.
C21_ReceiptSignedAndNamedByHash ==
    /\ \A r \in returned :
          /\ verifySignature(r.hash, r.signature)
          /\ r.signature.signer = privateKey
          /\ r.signature.over = r.hash
          /\ Len(r.receipt_id) = 2
          /\ r.receipt_id[1] = "vts_"
          /\ r.receipt_id[2] = r.hash[1]
    /\ \A r1, r2 \in returned :
          r1.hash = r2.hash => r1.receipt_id = r2.receipt_id

\* A valid request has just been answered with a receipt.
C21_ReceiptReturned ==
    \E r \in returned :
        /\ response = WitnessResponse(server, r)
        /\ verifySignature(r.hash, r.signature)

\* C22: the same decision witnessed at two different timestamp_ms gives two
\* receipts whose hash, receipt_id and signature all differ, whatever the
\* signing nonces, and the receipts witness has returned at different
\* timestamps are pairwise distinct in all three and each is stored.
C22_DistinctAcrossTime ==
    /\ \A request \in Requests, t1, t2 \in 0..MaxTime, n1, n2 \in WideNonces :
          t1 # t2 =>
              /\ NewReceipt(request, t1, n1).hash # NewReceipt(request, t2, n2).hash
              /\ NewReceipt(request, t1, n1).receipt_id #
                     NewReceipt(request, t2, n2).receipt_id
              /\ NewReceipt(request, t1, n1).signature #
                     NewReceipt(request, t2, n2).signature
    /\ \A r1, r2 \in returned :
          r1.timestamp_ms # r2.timestamp_ms =>
              /\ r1.hash # r2.hash
              /\ r1.receipt_id # r2.receipt_id
              /\ r1.signature # r2.signature
              /\ \A r \in { r1, r2 } :
                    InPending(r.receipt_id) \/ InSettled(r.receipt_id)

\* The same decision has been witnessed at two different timestamps and both
\* receipts are pending.
C22_WitnessedTwice ==
    \E r1, r2 \in returned :
        /\ r1.timestamp_ms # r2.timestamp_ms
        /\ InPending(r1.receipt_id)
        /\ InPending(r2.receipt_id)
        /\ Len(pendingReceipts) = 2

\* The public query actions of the ledger process.
QueryActions ==
    { "GetReceipt", "ListReceipts", "VerifyReceipt", "GetStats" }

\* C23: a GetReceipt, ListReceipts, VerifyReceipt or GetStats message, from
\* any sender and with any tags and data, leaves State.Receipts,
\* ReceiptCount, Owner and Frozen unchanged.
C23_QueriesReadOnly ==
    [][lastMsg'.Action \in QueryActions =>
           /\ State'.Receipts = State.Receipts
           /\ State'.ReceiptCount = State.ReceiptCount
           /\ State'.Owner = State.Owner
           /\ State'.Frozen = State.Frozen]_vars

\* A sender other than the owner has just been sent a stored receipt.
C23_ReceiptServedToStranger ==
    /\ lastMsg.Action = "GetReceipt"
    /\ lastMsg.From = OtherAddr
    /\ lastReply.Action = "Receipt"
    /\ State.ReceiptCount = 3

\* The number of receipts in the ReceiptList reply just sent.
ListedCount ==
    Len(lastReply'.Data.value.receipts)

\* C24 (as stated): the number of receipts in a ListReceipts reply never
\* exceeds the Limit tag, or 100 when the tag is absent or not a number.
C24_CountWithinLimit ==
    [][\A from \in Senders \ { Nil }, limitTag \in LimitTags,
          order \in Orders(State.ReceiptCount) :
           (/\ lastMsg'.Action = "ListReceipts"
            /\ lastMsg'.From = from
            /\ LedgerQuery(from, "ListReceipts", NilId, limitTag, RawText(<< >>),
                           order)) =>
               IF limitTag.kind = "number"
               THEN 2 * ListedCount <= limitTag.halves
               ELSE ListedCount <= 100]_vars

\* C24 (amended): a ListReceipts reply holds the stored receipts up to the
\* Limit tag rounded up to a whole number: none for a Limit of zero or less,
\* fewer than Limit + 1 otherwise, and at most 100 when the tag is absent or
\* not a number; it holds all stored receipts when they are no more than
\* that.
C24_CountWithinLimitRoundedUp ==
    [][\A from \in Senders \ { Nil }, limitTag \in LimitTags,
          order \in Orders(State.ReceiptCount) :
           (/\ lastMsg'.Action = "ListReceipts"
            /\ lastMsg'.From = from
            /\ LedgerQuery(from, "ListReceipts", NilId, limitTag, RawText(<< >>),
                           order)) =>
               LET halves == IF limitTag.kind = "number"
                             THEN limitTag.halves ELSE 200
               IN  /\ ListedCount <= State.ReceiptCount
                   /\ halves <= 0 => ListedCount = 0
                   /\ halves > 0 => 2 * ListedCount < halves + 2
                   /\ ListedCount < State.ReceiptCount => 2 * ListedCount >= halves
                   /\ \A i \in 1..ListedCount :
                         lastReply'.Data.value.receipts[i].receipt_id = order[i]]_vars

\* A ListReceipts reply without a Limit tag holds 100 receipts of the 101
\* that are stored.
C24_DefaultLimitReached ==
    /\ lastMsg.Action = "ListReceipts"
    /\ lastReply.Action = "ReceiptList"
    /\ Len(lastReply.Data.value.receipts) = 100
    /\ lastReply.Data.value.total_count = 101

\* C25: at no time are two settlement runs active, so no two runs hold the
\* same pending receipt in flight.
C25_TicksNeverOverlap ==
    /\ Len(runs) <= 1
    /\ \A i, j \in 1..Len(runs) :
          i # j =>
              IF server = "http"
              THEN \A a \in 1..Len(runs[i].batch), b \in 1..Len(runs[j].batch) :
                       runs[i].batch[a].receipt_id # runs[j].batch[b].receipt_id
              ELSE runs[i].cur.receipt_id # runs[j].cur.receipt_id

\* The receipt_ids of the batch an HTTP run took.
BatchIds(run) ==
    { run.batch[j].receipt_id : j \in 1..Len(run.batch) }

\* C26: a tick settles only receipts that were pending when it began.  When
\* an HTTP run's results are applied, every receipt of its batch is settled
\* and every pending receipt outside its batch stays pending and is not
\* settled by it; when an MCP run moves on to its next receipt, that receipt
\* was witnessed no later than the run's last timer began (a receipt
\* witnessed later was not there when the tick started).
C26_TickWorksOnSnapshot ==
    [][\A i \in 1..Len(runs) :
          /\ (server = "http" /\ HttpResultOk(i)) =>
                /\ \A id \in BatchIds(runs[i]) : id \in DOMAIN settledReceipts'
                /\ \A id \in MapKeys(pendingReceipts) \ BatchIds(runs[i]) :
                      /\ MapHas(pendingReceipts', id)
                      /\ id \in DOMAIN settledReceipts' =>
                             /\ id \in DOMAIN settledReceipts
                             /\ settledReceipts'[id] = settledReceipts[id]
          /\ (server = "mcp" /\ McpSettleStep(i) /\ Len(runs') = Len(runs)) =>
                runs'[i].cur.timestamp_ms <= runs[i].since]_vars

\* C27: applying a settled result for a receipt_id that is not pending
\* changes neither store.  On the MCP server a run whose timer ends for a
\* receipt that is no longer pending leaves both stores as they were; on the
\* HTTP server the results of a batch leave the settled record of every
\* receipt of the batch that is no longer pending as it was, and do not put
\* it back in the pending store.
C27_PromotionOfAbsentIsNoOp ==
    [][\A i \in 1..Len(runs) :
          /\ (server = "mcp" /\ McpSettleStep(i)
                  /\ ~InPending(runs[i].cur.receipt_id)) =>
                /\ pendingReceipts' = pendingReceipts
                /\ settledReceipts' = settledReceipts
          /\ (server = "http" /\ HttpResultOk(i)) =>
                \A id \in BatchIds(runs[i]) \ MapKeys(pendingReceipts) :
                    /\ ~MapHas(pendingReceipts', id)
                    /\ id \in DOMAIN settledReceipts' <=> id \in DOMAIN settledReceipts
                    /\ id \in DOMAIN settledReceipts =>
                           settledReceipts'[id] = settledReceipts[id]]_vars

\* C28: when message() or result() throws, the tick changes neither store:
\* every receipt of the batch that was pending is still pending with the
\* same hash, signature, timestamp and full payload, and nothing is added
\* to the settled store.
C28_FailedCallChangesNothing ==
    [][\A i \in 1..Len(runs) :
          (HttpMessageFail(i) \/ HttpMessageLost(i) \/ HttpResultFail(i)) =>
              /\ settledReceipts' = settledReceipts
              /\ pendingReceipts' = pendingReceipts
              /\ \A id \in BatchIds(runs[i]) \cap MapKeys(pendingReceipts) :
                    /\ MapHas(pendingReceipts', id)
                    /\ MapGet(pendingReceipts', id).hash = MapGet(pendingReceipts, id).hash
                    /\ MapGet(pendingReceipts', id).signature =
                           MapGet(pendingReceipts, id).signature
                    /\ MapGet(pendingReceipts', id).timestamp_ms =
                           MapGet(pendingReceipts, id).timestamp_ms
                    /\ MapGet(pendingReceipts', id).full_payload =
                           MapGet(pendingReceipts, id).full_payload
                    /\ MapGet(pendingReceipts', id).status = "pending"]_vars

\* A ledger call has failed and its batch is still pending with no run in
\* flight.
C28_BatchPendingAfterFailure ==
    /\ outcome.status = "failed"
    /\ outcome.error = "transport error"
    /\ Len(pendingReceipts) > 0
    /\ Len(runs) = 0
    /\ DOMAIN settledReceipts = {}

\* C29: a tick starts only when receipts are pending, every run in flight
\* holds a batch of at least one receipt, and every StoreReceipts message the
\* settler sends carries at least one receipt.
C29_NoEmptyBatch ==
    [][/\ (HttpTickStart \/ HttpTickSimulated \/ HttpTickNoWallet \/ McpTickStart) =>
              Len(pendingReceipts) >= 1
       /\ server = "http" =>
              \A i \in 1..Len(runs') : Len(runs'[i].batch) >= 1
       /\ \A i \in 1..Len(runs) :
              (HttpMessageOk(i) \/ HttpMessageLost(i)) =>
                  /\ StoreMessage(runs[i]).Data.value.count >= 1
                  /\ Len(StoreMessage(runs[i]).Data.value.receipts) >= 1
                  /\ Len(lastMsg'.Ids) >= 1]_vars

\* A batch has been sent and settled, and the pending store is empty: the
\* interval finds nothing to do.
C29_NothingLeftToSettle ==
    /\ Len(pendingReceipts) = 0
    /\ Len(runs) = 0
    /\ lastMsg.Action = "StoreReceipts"
    /\ Len(lastMsg.Ids) >= 1
    /\ DOMAIN settledReceipts # {}

\* The last ledger call failed, its receipts are still pending and no run is
\* in flight.
FailedAndIdle ==
    /\ outcome.status = "failed"
    /\ Len(pendingReceipts) > 0
    /\ Len(runs) = 0

\* A run has just taken a batch that holds every pending receipt.
Resubmitting ==
    \E i \in 1..Len(runs) :
        /\ runs[i].pc = "message"
        /\ MapKeys(pendingReceipts) \subseteq BatchIds(runs[i])

\* C30: after a tick whose ledger call failed, with the receipts still
\* pending and no run in flight, the interval starts a new tick whose batch
\* holds every pending receipt.
C30_NextTickRunsAfterFailure ==
    FailedAndIdle ~> Resubmitting

\* A tick has failed, and the next tick has taken the receipts again.
C30_ResubmittedAfterFailure ==
    /\ outcome.status = "failed"
    /\ outcome.error = "transport error"
    /\ Resubmitting

\* Settlement with an interval that keeps firing and a ledger that may never
\* answer: message() and result() carry no timeout, so nothing makes a call
\* in flight return.
SpecUnanswered ==
    /\ InitSettle
    /\ [][NextSettle]_vars
    /\ WF_vars(HttpTickStart)

\* C31: a ledger call that hangs ends in a transport failure after a bounded
\* wait, so a tick always terminates: if from some point on a tick is always
\* in flight, ticks keep ending.
C31_HungCallEnds ==
    <>[](Len(runs) >= 1) => []<><<Len(runs') < Len(runs)>>_vars

\* C32: witness is enabled in every state, also while a ledger call is in
\* flight; it makes no ledger call and starts no run, leaves the settled
\* store and every other pending entry as they were, and the entry it puts
\* under the new receipt_id is pending with a null ledger transaction.
C32_WitnessOnlyAddsPending ==
    /\ [](\A request \in Requests : \A nonce \in Nonces :
              ENABLED Witness(request, nonce))
    /\ [][\A request \in Requests : \A nonce \in Nonces :
              Witness(request, nonce) =>
                  LET id == generateReceiptId(hashWitnessRequest(request, now))
                  IN  /\ MapKeys(pendingReceipts') = MapKeys(pendingReceipts) \cup { id }
                      /\ MapGet(pendingReceipts', id).status = "pending"
                      /\ MapGet(pendingReceipts', id).arweave_tx = NullTx
                      /\ \A k \in MapKeys(pendingReceipts) \ { id } :
                             MapGet(pendingReceipts', k) = MapGet(pendingReceipts, k)
                      /\ settledReceipts' = settledReceipts
                      /\ runs' = runs
                      /\ ledgerVars' = ledgerVars]_vars

\* A receipt was witnessed at a later instant than the batch of a ledger call
\* that is still in flight, next to a receipt already settled.
C32_WitnessedDuringLedgerCall ==
    /\ \E i \in 1..Len(runs) :
           /\ runs[i].pc \in { "message", "result" }
           /\ \E k \in MapKeys(pendingReceipts) \ BatchIds(runs[i]) :
                  \A j \in 1..Len(runs[i].batch) :
                      runs[i].batch[j].timestamp_ms < MapGet(pendingReceipts, k).timestamp_ms
    /\ DOMAIN settledReceipts # {}

\* The ledger process with every kind of StoreReceipts payload: the payloads
\* of SpecLedger and a Data that is a JSON number.
PayloadDatas ==
    Datas \cup { JsonText(JsonNumber(5)) }

NextPayload ==
    \/ \E from \in Senders, data \in PayloadDatas :
           LedgerSend(from, "StoreReceipts", data)
    \/ \E from \in Senders : LedgerSend(from, "Freeze", RawText(<< >>))
    \/ \E from \in Senders : LedgerSend(from, "Unfreeze", RawText(<< >>))
    \/ Advance

SpecPayload ==
    InitLedger /\ [][NextPayload]_vars

\* The payload is empty, does not parse, or decodes to something without a
\* receipts field.
NoReceiptsArray(data) ==
    data.kind = "raw" \/ "receipts" \notin DOMAIN data.value

\* C33: a StoreReceipts message whose Data is empty, unparseable or without
\* a receipts array leaves the process state unchanged and, when the message
\* names a sender, is answered with an Error reply.
C33_InvalidPayloadAnswered ==
    [][\A from \in Senders : \A data \in PayloadDatas :
           (LedgerSend(from, "StoreReceipts", data) /\ NoReceiptsArray(data)) =>
               /\ State' = State
               /\ from # Nil => lastReply'.Action = "Error"]_vars

\* C34: for every receipt settled against a real ledger that the ledger has
\* stored, the ledger_tx recorded locally is the message_id the ledger
\* recorded for that receipt_id.
C34_LocalTxIsLedgerMessage ==
    \A id \in DOMAIN settledReceipts :
        (settledReceipts[id].arweave_tx.kind = "msg" /\ id \in DOMAIN State.Receipts) =>
            settledReceipts[id].arweave_tx = State.Receipts[id].message_id

\* Callers that repeat a witness request, with signatures that differ from
\* call to call, while the simulated settlement runs.
NextRepeat ==
    \/ \E request \in Requests, nonce \in WideNonces : Witness(request, nonce)
    \/ HttpTickSimulated
    \/ McpTickStart
    \/ \E i \in 1..Len(runs) : McpSettleStep(i)
    \/ Advance

SpecRepeat ==
    InitFrontEnd /\ [][NextRepeat]_vars

\* The entries of the pending store kept under a receipt_id.
PendingEntries(id) ==
    { i \in 1..Len(pendingReceipts) : pendingReceipts[i].receipt_id = id }

StoredOrders(S) ==
    { o \in [ 1..Cardinality(DOMAIN S.Receipts) -> DOMAIN S.Receipts ] :
        \A i, j \in DOMAIN o : i # j => o[i] # o[j] }

\* The ledger process under every message it has a handler for.
NextProcess ==
    \/ \E from \in Senders, data \in PayloadDatas :
           LedgerSend(from, "StoreReceipts", data)
    \/ \E from \in Senders : LedgerSend(from, "Freeze", RawText(<< >>))
    \/ \E from \in Senders : LedgerSend(from, "Unfreeze", RawText(<< >>))
    \/ \E from \in Senders, receiptIdTag \in { NilId, EntryA.receipt_id } :
           LedgerQuery(from, "GetReceipt", receiptIdTag, NoLimit, RawText(<< >>), << >>)
    \/ \E from \in Senders, limitTag \in { NoLimit, NumberLimit(2) },
             order \in StoredOrders(State) :
           LedgerQuery(from, "ListReceipts", NilId, limitTag, RawText(<< >>), order)
    \/ \E from \in Senders, receiptIdTag \in { NilId, EntryB.receipt_id } :
           LedgerQuery(from, "VerifyReceipt", receiptIdTag, NoLimit, RawText(<< >>), << >>)
    \/ \E from \in Senders :
           LedgerQuery(from, "GetStats", NilId, NoLimit, RawText(<< >>), << >>)
    \/ Advance

SpecProcess ==
    InitLedger /\ [][NextProcess]_vars

\* C36: in every reachable state of the ledger process State.ReceiptCount is
\* the number of keys of State.Receipts, and no message makes it smaller.
C36_CountIsNumberOfKeys ==
    /\ [](State.ReceiptCount = Cardinality(DOMAIN State.Receipts))
    /\ [][State'.ReceiptCount >= State.ReceiptCount]_vars

\* The owner's batch repeated a receipt_id, or held an entry without one,
\* and stored one receipt next to one stored before.
C36_RepeatedIdStoredOnce ==
    /\ lastMsg.Action = "StoreReceipts"
    /\ Len(lastMsg.Ids) = 2
    /\ lastMsg.Ids[1] = lastMsg.Ids[2] \/ lastMsg.Ids[1] = NilId
    /\ lastReply.Action = "ReceiptsStored"
    /\ lastReply.Data.value.stored_count = 1
    /\ State.ReceiptCount = 2

====
